---- MODULE Spec2Model ----
(***************************************************************************)
(* The affordance document model of coastjs/hypermedia: Input, Affordance  *)
(* and Affordances objects on a heap of JavaScript objects, with the       *)
(* operations of lib/affordances.js, lib/affordance.js and lib/input.js.   *)
(*                                                                         *)
(* Objects have identity: an object is an address of the heap, and a field *)
(* that holds an object holds its address (0 is undefined).  Metadata maps *)
(* are plain objects of the heap, so that a copy shares its metadata       *)
(* object with the original exactly as the code shares the reference.      *)
(***************************************************************************)
EXTENDS Integers, Sequences, FiniteSets, TLC

VARIABLES heap, lastCall

vars == <<heap, lastCall>>

(***************************************************************************)
(* Bounds of the model.                                                    *)
(***************************************************************************)
\* Objects the client program creates with the constructors.
MaxNodes == 3
\* The same, for the client that only builds a tree and walks it.
MaxWalkNodes == 4
\* The same, for the client of one Affordance and its inputs and messages.
MaxFormObjects == 2
\* References the client adds to one children list.
MaxChildren == 2
\* Cells of the heap left for the objects one call creates (copies).
MaxTemp == 4

\* Cells 1..MaxNodes hold the constructed nodes, the next MaxNodes cells the
\* metadata object literal given to each of them.
Addr == 1..(2 * MaxNodes + MaxTemp)

\* A recursion over the children lists nested deeper than the number of cells
\* has a node twice on the call stack and never unwinds: the engine ends it
\* with a RangeError (Maximum call stack size exceeded).
MaxCallStack == 2 * MaxNodes + MaxTemp

(***************************************************************************)
(* JavaScript values.  Strings are TLA+ strings; the values below are the  *)
(* ones that are not strings (typeof value !== 'string').                  *)
(***************************************************************************)
Undefined == "undefined"
NotAString == "number:7"
Strings == {"", "L", "C", "R", "GET", "/x", "self", "200", "*",
            "0", "80", "-1", "http", "127.0.0.1"}

TypeofString(v) == v \in Strings

TypeofBoolean(v) == v \in {"true", "false"}

\* The object literals a client passes to setMetadata, by their properties.
MetaLiterals ==
    { [k \in {"a"} |-> 1],
      [k \in {"a", "b"} |-> 2],
      [k \in {"b"} |-> 3] }

\* An argument that is an object literal, or is not an object (undefined).
ObjectLiteral(props) == [isObject |-> TRUE, props |-> props]
NotAnObject == [isObject |-> FALSE, props |-> <<>>]
MetaArgs == {ObjectLiteral(p) : p \in MetaLiterals} \cup {NotAnObject}

(***************************************************************************)
(* Heap cells.                                                             *)
(***************************************************************************)
Free == [kind |-> "free"]

\* function Affordances(id)
Affordances(id) ==
    [kind |-> "Affordances",
     _id |-> IF TypeofString(id) THEN id ELSE Undefined,
     _metadata |-> 0,
     _affordances |-> <<>>]

\* A value that is an array or is not one (undefined, for an absent field).
Array(arr) == [isArray |-> TRUE, arr |-> arr]
NoArray == [isArray |-> FALSE, arr |-> <<>>]

\* function Affordance(id, method, uri)
Affordance(id, method, uri) ==
    LET i == IF TypeofString(id) THEN id ELSE ""
    IN [kind |-> "Affordance",
        _id |-> i,
        _method |-> IF TypeofString(method) THEN method ELSE "",
        _uri |-> IF TypeofString(uri) THEN uri ELSE "",
        _relation |-> Undefined,
        _metadata |-> 0,
        _controls |-> NoArray,
        _messages |-> [c \in {"*"} |-> <<i>>]]

\* function Input(id, value)
Input(id, value) ==
    [kind |-> "Input",
     _id |-> IF TypeofString(id) THEN id ELSE "",
     _value |-> IF value # Undefined THEN value ELSE "",
     _accept |-> NoArray,
     _hidden |-> Undefined,
     _label |-> Undefined,
     _options |-> NoArray,
     _readonly |-> Undefined,
     _regexp |-> Undefined,
     _required |-> Undefined]

\* A plain object, used as a metadata map.
Object(props) == [kind |-> "Object", props |-> props]

IsNode(h, a) == a \in Addr /\ h[a].kind \in {"Affordances", "Affordance"}

\* affordance.isPrototypeOf(object)
affordanceIsPrototypeOf(h, a) == a \in Addr /\ h[a].kind = "Affordance"

\* object instanceof Affordances
instanceofAffordances(h, a) == a \in Addr /\ h[a].kind = "Affordances"

\* input.isPrototypeOf(object)
inputIsPrototypeOf(h, a) == a \in Addr /\ h[a].kind = "Input"

\* !!metadata && (typeof metadata === 'object'), for a reference or undefined
IsObject(h, a) == a \in Addr /\ h[a].kind # "free"

FreeCells(h) == {a \in Addr : h[a].kind = "free"}

\* The cell a `new` or an object literal takes.
Alloc(h) == CHOOSE a \in FreeCells(h) : \A b \in FreeCells(h) : a <= b

\* The own enumerable properties of the object a metadata field refers to.
Props(h, m) == IF m \in Addr /\ h[m].kind = "Object" THEN h[m].props ELSE <<>>

Range(s) == {s[i] : i \in 1..Len(s)}

\* The result of a call that may create objects: how it ended ("ok",
\* "RangeError" when the recursion never unwinds, "OutOfHeap" when the model's
\* heap is too small for it), the heap it leaves and the value it returns.
Ret(st, h, r) == [st |-> st, h |-> h, r |-> r]

(***************************************************************************)
(* lib/affordances.js and lib/affordance.js: setters.                      *)
(***************************************************************************)
\* Affordances.setId / Input.setId
setId(h, this, id) ==
    [h EXCEPT ![this]._id = IF TypeofString(id) THEN id ELSE @]

\* Affordances.setMetadata / Affordance.setMetadata
setMetadata(h, this, metadata) ==
    [h EXCEPT ![this]._metadata = IF IsObject(h, metadata) THEN metadata ELSE @]

\* Affordance.setRelation
setRelation(h, this, relation) ==
    [h EXCEPT ![this]._relation = IF TypeofString(relation) THEN relation ELSE @]

\* addAffordance without the lastIndexOf test.
addAffordanceNoDuplicateTest(h, this, action) ==
    IF affordanceIsPrototypeOf(h, action) \/ instanceofAffordances(h, action)
    THEN [h EXCEPT ![this]._affordances = Append(@, action)]
    ELSE h

\* Affordances.addAffordance
addAffordance(h, this, action) ==
    IF /\ (affordanceIsPrototypeOf(h, action) \/ instanceofAffordances(h, action))
       /\ action \notin Range(h[this]._affordances)
    THEN [h EXCEPT ![this]._affordances = Append(@, action)]
    ELSE h

\* Affordance.addInput
addInput(h, this, control) ==
    LET controls == IF h[this]._controls.isArray THEN h[this]._controls.arr ELSE <<>>
    IN IF inputIsPrototypeOf(h, control) /\ control \notin Range(controls)
       THEN [h EXCEPT ![this]._controls = Array(Append(controls, control))]
       ELSE [h EXCEPT ![this]._controls = Array(controls)]

\* addMessage without the test of the list's elements.
addMessageNoElementTest(h, this, response, message) ==
    IF TypeofString(response) /\ message.isArray /\ Len(message.arr) > 0
    THEN [h EXCEPT ![this]._messages =
            [c \in DOMAIN @ \cup {response} |->
                IF c = response THEN message.arr ELSE @[c]]]
    ELSE h

\* Affordance.addMessage
addMessage(h, this, response, message) ==
    IF /\ TypeofString(response)
       /\ message.isArray
       /\ Len(message.arr) > 0
       /\ \A i \in 1..Len(message.arr) : TypeofString(message.arr[i])
    THEN [h EXCEPT ![this]._messages =
            [c \in DOMAIN @ \cup {response} |->
                IF c = response THEN message.arr ELSE @[c]]]
    ELSE h

\* Affordance.getMessage
getMessage(h, this, response) ==
    LET messages == h[this]._messages
    IN IF response \in DOMAIN messages THEN messages[response] ELSE messages["*"]

\* Affordances.getCount
getCount(h, this) == Len(h[this]._affordances)

\* MergedMetadata with the two loops in the other order: the parent's fields
\* written last.
MergedMetadataParentLast(parent, child) ==
    [k \in DOMAIN parent \cup DOMAIN child |->
        IF k \in DOMAIN parent THEN parent[k] ELSE child[k]]

\* The merge of cascadeMetadata: the parent's fields, then the child's own
\* fields over them.
MergedMetadata(parent, child) ==
    [k \in DOMAIN parent \cup DOMAIN child |->
        IF k \in DOMAIN child THEN child[k] ELSE parent[k]]

\* cascadeMetadata writing the parent's fields into the map the receiver
\* already has, instead of a new one.
cascadeMetadataInPlace(h, this, parentMeta) ==
    LET childMeta == h[this]._metadata
    IN IF ~IsObject(h, childMeta)
       THEN Ret("ok", [h EXCEPT ![this]._metadata = parentMeta], this)
       ELSE Ret("ok",
                [h EXCEPT ![childMeta] = Object(MergedMetadata(Props(h, parentMeta),
                                                               Props(h, childMeta)))],
                this)

\* Affordances.cascadeMetadata / Affordance.cascadeMetadata (the same body)
cascadeMetadata(h, this, parentMeta) ==
    LET childMeta == h[this]._metadata
        parentMetaIsObject == IsObject(h, parentMeta)
        childMetaIsObject == IsObject(h, childMeta)
    IN IF ~(parentMetaIsObject \/ childMetaIsObject)
       THEN Ret("ok", [h EXCEPT ![this]._metadata = 0], this)
       ELSE IF FreeCells(h) = {} THEN Ret("OutOfHeap", h, 0)
       ELSE LET m == Alloc(h)
            IN Ret("ok",
                   [h EXCEPT ![m] = Object(MergedMetadata(Props(h, parentMeta),
                                                          Props(h, childMeta))),
                             ![this]._metadata = m],
                   this)

(***************************************************************************)
(* lib/input.js: setters and copy.                                         *)
(***************************************************************************)
\* Input.setValue
setValue(h, this, value) ==
    [h EXCEPT ![this]._value = IF value # Undefined THEN value ELSE @]

\* setAccept without the test of its argument.
setAcceptNoTest(h, this, accept) == [h EXCEPT ![this]._accept = accept]

\* Input.setAccept
setAccept(h, this, accept) ==
    [h EXCEPT ![this]._accept =
        IF accept.isArray /\ Len(accept.arr) > 0 THEN accept ELSE @]

\* Input.setRequired
setRequired(h, this, required) ==
    [h EXCEPT ![this]._required = IF TypeofBoolean(required) THEN required ELSE @]

\* Input.setLabel
setLabel(h, this, label) ==
    [h EXCEPT ![this]._label = IF TypeofString(label) THEN label ELSE @]

\* Input.setHidden
setHidden(h, this, hidden) ==
    [h EXCEPT ![this]._hidden = IF TypeofBoolean(hidden) THEN hidden ELSE @]

\* Input.setReadonly
setReadonly(h, this, readonly) ==
    [h EXCEPT ![this]._readonly = IF TypeofBoolean(readonly) THEN readonly ELSE @]

\* Input.setValueOptions
setValueOptions(h, this, options) ==
    [h EXCEPT ![this]._options =
        IF options.isArray /\ Len(options.arr) > 0 THEN options ELSE @]

\* setRegExp without the test of its argument.
setRegExpNoTest(h, this, regexp) ==
    [h EXCEPT ![this]._regexp = regexp]

\* Input.setRegExp
setRegExp(h, this, regexp) ==
    [h EXCEPT ![this]._regexp = IF TypeofString(regexp) THEN regexp ELSE @]

\* Input.copy
InputCopy(h, this) ==
    IF FreeCells(h) = {} THEN Ret("OutOfHeap", h, 0)
    ELSE LET c == Alloc(h)
             o == h[this]
             h0 == [h EXCEPT ![c] = Input(Undefined, Undefined)]
             h1 == setValue(setId(h0, c, o._id), c, o._value)
             h2 == setRequired(setAccept(h1, c, o._accept), c, o._required)
             h3 == setHidden(setLabel(h2, c, o._label), c, o._hidden)
             h4 == setValueOptions(setReadonly(h3, c, o._readonly), c, o._options)
         IN Ret("ok", setRegExp(h4, c, o._regexp), c)

(***************************************************************************)
(* copy(): Affordance.copy and Affordances.copy, each calling the copy of  *)
(* the objects it holds.  d is the depth of the call stack.                *)
(***************************************************************************)
RECURSIVE copy(_, _, _)
RECURSIVE AffordanceCopyControls(_, _, _, _)
RECURSIVE AffordancesCopyChildren(_, _, _, _, _)
RECURSIVE AffordancesCopyChildrenShallow(_, _, _, _, _)

\* The loop of Affordance.copy: copy.addInput(control.copy()) for each control.
AffordanceCopyControls(h, c, controls, i) ==
    IF i > Len(controls) THEN Ret("ok", h, c)
    ELSE LET k == InputCopy(h, controls[i])
         IN IF k.st # "ok" THEN k
            ELSE AffordanceCopyControls(addInput(k.h, c, k.r), c, controls, i + 1)

\* Affordance.copy
AffordanceCopy(h, this) ==
    IF FreeCells(h) = {} THEN Ret("OutOfHeap", h, 0)
    ELSE LET c == Alloc(h)
             o == h[this]
             h0 == [h EXCEPT ![c] = Affordance(o._id, o._method, o._uri)]
             h1 == setMetadata(setRelation(h0, c, o._relation), c, o._metadata)
         IN IF o._controls.isArray
            THEN AffordanceCopyControls(h1, c, o._controls.arr, 1)
            ELSE Ret("ok", h1, c)

\* AffordancesCopyChildren adding the children themselves, not their copies.
AffordancesCopyChildrenShallow(h, c, affordances, i, d) ==
    IF i > Len(affordances) THEN Ret("ok", h, c)
    ELSE AffordancesCopyChildrenShallow(addAffordance(h, c, affordances[i]), c,
                                        affordances, i + 1, d)

\* The loop of Affordances.copy: copy.addAffordance(affordance.copy()).
AffordancesCopyChildren(h, c, affordances, i, d) ==
    IF i > Len(affordances) THEN Ret("ok", h, c)
    ELSE LET k == copy(h, affordances[i], d + 1)
         IN IF k.st # "ok" THEN k
            ELSE AffordancesCopyChildren(addAffordance(k.h, c, k.r), c,
                                         affordances, i + 1, d)

\* Affordances.copy
AffordancesCopy(h, this, d) ==
    IF FreeCells(h) = {} THEN Ret("OutOfHeap", h, 0)
    ELSE LET c == Alloc(h)
             o == h[this]
             h0 == [h EXCEPT ![c] = Affordances(Undefined)]
             h1 == setMetadata(setId(h0, c, o._id), c, o._metadata)
         IN AffordancesCopyChildren(h1, c, o._affordances, 1, d)

\* object.copy(), by the type of the receiver
copy(h, this, d) ==
    IF d > MaxCallStack THEN Ret("RangeError", h, 0)
    ELSE IF h[this].kind = "Affordances" THEN AffordancesCopy(h, this, d)
    ELSE IF h[this].kind = "Affordance" THEN AffordanceCopy(h, this)
    ELSE InputCopy(h, this)

(***************************************************************************)
(* lib/affordances.js: the searches and the traversal.                     *)
(***************************************************************************)
RECURSIVE hasAffordanceWithId(_, _, _, _)
RECURSIVE hasAffordanceWithIdLoop(_, _, _, _, _)
RECURSIVE hasAffordanceWithIdLoopReturnsNested(_, _, _, _, _)

\* hasAffordanceWithIdLoop returning what the first nested collection answers,
\* found or not.
hasAffordanceWithIdLoopReturnsNested(h, affordances, i, id, d) ==
    IF i > Len(affordances) THEN "false"
    ELSE LET affordance == affordances[i]
         IN IF h[affordance]._id = id THEN "true"
            ELSE IF instanceofAffordances(h, affordance)
            THEN hasAffordanceWithId(h, affordance, id, d + 1)
            ELSE hasAffordanceWithIdLoopReturnsNested(h, affordances, i + 1, id, d)

\* The for loop of hasAffordanceWithId, from index i on.  The result is
\* "true", "false" or "RangeError".
hasAffordanceWithIdLoop(h, affordances, i, id, d) ==
    IF i > Len(affordances) THEN "false"
    ELSE LET affordance == affordances[i]
         IN IF h[affordance]._id = id THEN "true"
            ELSE IF instanceofAffordances(h, affordance)
            THEN LET found == hasAffordanceWithId(h, affordance, id, d + 1)
                 IN IF found \in {"true", "RangeError"} THEN found
                    ELSE hasAffordanceWithIdLoop(h, affordances, i + 1, id, d)
            ELSE hasAffordanceWithIdLoop(h, affordances, i + 1, id, d)

\* Affordances.hasAffordanceWithId
hasAffordanceWithId(h, this, id, d) ==
    IF d > MaxCallStack THEN "RangeError"
    ELSE IF TypeofString(id)
    THEN hasAffordanceWithIdLoop(h, h[this]._affordances, 1, id, d)
    ELSE "false"

RECURSIVE copyAffordanceById(_, _, _, _)
RECURSIVE copyAffordanceByIdLoop(_, _, _, _, _, _)

\* CopyOfMatch without the copy(): the cascade lands on the node of the tree.
CopyOfMatchNoCopy(h, affordance, metadata, d) ==
    cascadeMetadata(h, affordance, metadata)

\* A match among the direct children: affordance.copy().cascadeMetadata(metadata)
CopyOfMatch(h, affordance, metadata, d) ==
    LET k == copy(h, affordance, d + 1)
    IN IF k.st # "ok" THEN k ELSE cascadeMetadata(k.h, k.r, metadata)

\* The for loop of copyAffordanceById, from index i on.  r = 0 is null.
copyAffordanceByIdLoop(h, affordances, metadata, i, id, d) ==
    IF i > Len(affordances) THEN Ret("ok", h, 0)
    ELSE LET affordance == affordances[i]
         IN IF h[affordance]._id = id
            THEN CopyOfMatch(h, affordance, metadata, d)
            ELSE IF instanceofAffordances(h, affordance)
            THEN LET k == copyAffordanceById(h, affordance, id, d + 1)
                 IN IF k.st # "ok" THEN k
                    ELSE IF k.r # 0 THEN cascadeMetadata(k.h, k.r, metadata)
                    ELSE copyAffordanceByIdLoop(k.h, affordances, metadata,
                                                i + 1, id, d)
            ELSE copyAffordanceByIdLoop(h, affordances, metadata, i + 1, id, d)

\* Affordances.copyAffordanceById
copyAffordanceById(h, this, id, d) ==
    IF d > MaxCallStack THEN Ret("RangeError", h, 0)
    ELSE IF TypeofString(id)
    THEN copyAffordanceByIdLoop(h, h[this]._affordances, h[this]._metadata,
                                1, id, d)
    ELSE Ret("ok", h, 0)

RECURSIVE forEachAffordance(_, _, _, _, _)
RECURSIVE forEachAffordanceLoop(_, _, _, _, _)
RECURSIVE forEachAffordanceLoopCallsBack(_, _, _, _, _)

\* forEachAffordanceLoop handing a nested collection to the callback before
\* it walks it.
forEachAffordanceLoopCallsBack(h, affordances, i, seen, d) ==
    IF i > Len(affordances) THEN [st |-> "ok", seen |-> seen]
    ELSE LET affordance == affordances[i]
         IN IF instanceofAffordances(h, affordance)
            THEN LET k == forEachAffordance(h, affordance, "function",
                                            Append(seen, affordance), d + 1)
                 IN IF k.st # "ok" THEN k
                    ELSE forEachAffordanceLoopCallsBack(h, affordances, i + 1,
                                                        k.seen, d)
            ELSE forEachAffordanceLoopCallsBack(h, affordances, i + 1,
                                                Append(seen, affordance), d)

\* affordances.forEach(function (affordance) {...}), from index i on.  seen is
\* the sequence of the arguments the callback was invoked with so far.
forEachAffordanceLoop(h, affordances, i, seen, d) ==
    IF i > Len(affordances) THEN [st |-> "ok", seen |-> seen]
    ELSE LET affordance == affordances[i]
         IN IF instanceofAffordances(h, affordance)
            THEN LET k == forEachAffordance(h, affordance, "function", seen, d + 1)
                 IN IF k.st # "ok" THEN k
                    ELSE forEachAffordanceLoop(h, affordances, i + 1, k.seen, d)
            ELSE forEachAffordanceLoop(h, affordances, i + 1,
                                       Append(seen, affordance), d)

\* Affordances.forEachAffordance
forEachAffordance(h, this, callback, seen, d) ==
    IF d > MaxCallStack THEN [st |-> "RangeError", seen |-> seen]
    ELSE IF callback = "function"
    THEN forEachAffordanceLoop(h, h[this]._affordances, 1, seen, d)
    ELSE [st |-> "ok", seen |-> seen]

(***************************************************************************)
(* Shape of the object graph.                                              *)
(***************************************************************************)
NodesOf(h) == {a \in Addr : IsNode(h, a)}
Composites(h) == {a \in Addr : instanceofAffordances(h, a)}
Allocated(h) == Addr \ FreeCells(h)

Children(h, a) == IF instanceofAffordances(h, a) THEN Range(h[a]._affordances) ELSE {}

RECURSIVE Reach(_, _)
\* The nodes reached from the set S through children lists, S included.
Reach(h, S) ==
    LET T == S \cup UNION {Children(h, a) : a \in S}
    IN IF T = S THEN S ELSE Reach(h, T)

\* The nodes below a: its children, their children, and so on.
Descendants(h, a) == Reach(h, Children(h, a))

Parents(h, a) == {p \in Composites(h) : a \in Children(h, p)}

\* No node is below itself and no node is in two children lists.
IsForest(h) ==
    /\ \A a \in Composites(h) : a \notin Descendants(h, a)
    /\ \A a \in NodesOf(h) : Cardinality(Parents(h, a)) <= 1

(***************************************************************************)
(* The client program.  It keeps the objects it constructs.  lastCall is   *)
(* the call it made last, with what the call returned; the client reads it *)
(* and drops it before its next call, and the objects the call created     *)
(* (the copies) are then garbage.                                          *)
(***************************************************************************)
NoCall ==
    [op |-> "none", this |-> 0, id |-> Undefined, arg |-> 0, st |-> "ok",
     ret |-> 0, val |-> Undefined, seen |-> <<>>, fresh |-> {}, changed |-> FALSE]

Call(op, this, id, arg) ==
    [NoCall EXCEPT !.op = op, !.this = this, !.id = id, !.arg = arg]

Idle == lastCall = NoCall

\* The cell of the object literal given to this.setMetadata: the literal
\* replaces the one given before, which nothing else refers to.
MetaCell(this) == MaxNodes + this

\* The arguments the client passes as identifiers: to affordances(id) and to
\* the searches, and to affordance(id, method, uri).
IdArgs == {"L", Undefined}
LeafIdArgs == {"L"}

Init ==
    /\ heap = [a \in Addr |-> Free]
    /\ lastCall = NoCall

\* The client drops the value the last call returned.
Discard ==
    /\ ~Idle
    /\ heap' = [a \in Addr |-> IF a \in lastCall.fresh THEN Free ELSE heap[a]]
    /\ lastCall' = NoCall

\* The objects the client constructed.
Constructed(h) == {a \in Addr : h[a].kind \in {"Affordances", "Affordance", "Input"}}

\* affordances(id), by a client that constructs at most max objects
NewAffordances(id, max) ==
    /\ Idle
    /\ Cardinality(Constructed(heap)) < max
    /\ heap' = [heap EXCEPT ![Alloc(heap)] = Affordances(id)]
    /\ UNCHANGED lastCall

\* affordance(id, method, uri)
NewAffordance(id, method, uri, max) ==
    /\ Idle
    /\ Cardinality(Constructed(heap)) < max
    /\ heap' = [heap EXCEPT ![Alloc(heap)] = Affordance(id, method, uri)]
    /\ UNCHANGED lastCall

\* input(id, value)
NewInput(id, value, max) ==
    /\ Idle
    /\ Cardinality(Constructed(heap)) < max
    /\ heap' = [heap EXCEPT ![Alloc(heap)] = Input(id, value)]
    /\ UNCHANGED lastCall

\* this.setMetadata(metadata) with an object literal or with undefined
SetMetadata(this, metadata) ==
    /\ Idle
    /\ IsNode(heap, this)
    /\ heap' = IF metadata.isObject
               THEN setMetadata([heap EXCEPT ![MetaCell(this)] = Object(metadata.props)],
                                this, MetaCell(this))
               ELSE setMetadata(heap, this, 0)
    /\ UNCHANGED lastCall

\* this.addAffordance(action)
AddAffordance(this, action) ==
    /\ Idle
    /\ instanceofAffordances(heap, this)
    /\ action \in Allocated(heap) \cup {0}
    /\ heap' = addAffordance(heap, this, action)
    /\ getCount(heap', this) <= MaxChildren
    /\ lastCall' = [Call("addAffordance", this, Undefined, action) EXCEPT
                       !.ret = this, !.changed = (heap' # heap)]

\* this.addAffordance(action) by a client that builds a tree
AddTreeAffordance(this, action) ==
    /\ AddAffordance(this, action)
    /\ IsForest(heap')

\* this.getCount()
GetCount(this) ==
    /\ Idle
    /\ instanceofAffordances(heap, this)
    /\ UNCHANGED heap
    /\ lastCall' = [Call("getCount", this, Undefined, 0) EXCEPT
                       !.ret = getCount(heap, this)]

\* this.hasAffordanceWithId(id)
HasAffordanceWithId(this, id) ==
    /\ Idle
    /\ instanceofAffordances(heap, this)
    /\ UNCHANGED heap
    /\ LET found == hasAffordanceWithId(heap, this, id, 1)
       IN lastCall' = [Call("hasAffordanceWithId", this, id, 0) EXCEPT
                          !.st = IF found = "RangeError" THEN found ELSE "ok",
                          !.val = found]

\* this.copyAffordanceById(id)
CopyAffordanceById(this, id) ==
    /\ Idle
    /\ instanceofAffordances(heap, this)
    /\ LET k == copyAffordanceById(heap, this, id, 1)
       IN /\ k.st # "OutOfHeap"
          /\ heap' = k.h
          /\ lastCall' = [Call("copyAffordanceById", this, id, 0) EXCEPT
                             !.st = k.st, !.ret = k.r,
                             !.fresh = Allocated(k.h) \ Allocated(heap)]

\* this.copy()
Copy(this) ==
    /\ Idle
    /\ IsNode(heap, this)
    /\ LET k == copy(heap, this, 1)
       IN /\ k.st # "OutOfHeap"
          /\ heap' = k.h
          /\ lastCall' = [Call("copy", this, Undefined, 0) EXCEPT
                             !.st = k.st, !.ret = k.r,
                             !.fresh = Allocated(k.h) \ Allocated(heap)]

\* this.forEachAffordance(callback), with a callback that records its argument
ForEachAffordance(this, callback) ==
    /\ Idle
    /\ instanceofAffordances(heap, this)
    /\ UNCHANGED heap
    /\ LET k == forEachAffordance(heap, this, callback, <<>>, 1)
       IN lastCall' = [Call("forEachAffordance", this, Undefined, 0) EXCEPT
                          !.st = k.st, !.seen = k.seen, !.val = callback]

\* Any client of lib/affordances.js: object graphs of every shape the
\* constructors and addAffordance allow.
Next ==
    \/ \E id \in IdArgs : NewAffordances(id, MaxNodes)
    \/ \E id \in LeafIdArgs : NewAffordance(id, "GET", "/x", MaxNodes)
    \/ \E id \in LeafIdArgs : NewInput(id, "", MaxNodes)
    \/ \E this \in Addr, action \in Addr \cup {0} : AddAffordance(this, action)
    \/ \E this \in Addr : GetCount(this)
    \/ \E this \in Addr, id \in IdArgs : HasAffordanceWithId(this, id)
    \/ \E this \in Addr : Copy(this)
    \/ \E this \in Addr, callback \in {"function", Undefined} :
            ForEachAffordance(this, callback)
    \/ Discard

Spec == Init /\ [][Next]_vars

\* A client that builds trees, with metadata on the nodes.
NextTree ==
    \/ \E id \in IdArgs : NewAffordances(id, MaxNodes)
    \/ \E id \in LeafIdArgs : NewAffordance(id, "GET", "/x", MaxNodes)
    \/ \E this \in Addr, metadata \in MetaArgs : SetMetadata(this, metadata)
    \/ \E this \in Addr, action \in Addr \cup {0} : AddTreeAffordance(this, action)
    \/ \E this \in Addr, id \in IdArgs : CopyAffordanceById(this, id)
    \/ \E this \in Addr : Copy(this)
    \/ Discard

SpecTree == Init /\ [][NextTree]_vars

\* A client that builds a larger tree and walks it.
NextWalk ==
    \/ NewAffordances(Undefined, MaxWalkNodes)
    \/ \E id \in LeafIdArgs : NewAffordance(id, "GET", "/x", MaxWalkNodes)
    \/ \E this \in Addr, action \in Addr \cup {0} : AddTreeAffordance(this, action)
    \/ \E this \in Addr, callback \in {"function", Undefined} :
            ForEachAffordance(this, callback)
    \/ Discard

SpecWalk == Init /\ [][NextWalk]_vars

\* this.setRelation(relation)
SetRelation(this, relation) ==
    /\ Idle
    /\ affordanceIsPrototypeOf(heap, this)
    /\ heap' = setRelation(heap, this, relation)
    /\ UNCHANGED lastCall

\* this.addInput(control)
AddInput(this, control) ==
    /\ Idle
    /\ affordanceIsPrototypeOf(heap, this)
    /\ control \in Allocated(heap) \cup {0}
    /\ heap' = addInput(heap, this, control)
    /\ UNCHANGED lastCall

\* this.addMessage(response, message)
AddMessage(this, response, message) ==
    /\ Idle
    /\ affordanceIsPrototypeOf(heap, this)
    /\ heap' = addMessage(heap, this, response, message)
    /\ UNCHANGED lastCall

\* this.getMessage(response)
GetMessage(this, response) ==
    /\ Idle
    /\ affordanceIsPrototypeOf(heap, this)
    /\ UNCHANGED heap
    /\ lastCall' = [Call("getMessage", this, response, 0) EXCEPT
                       !.seen = getMessage(heap, this, response)]

\* The response codes and the message lists a client passes.
ResponseArgs == {"200", "*", NotAString}
MessageArgs == {Array(<<"L">>), Array(<<"L", NotAString>>), Array(<<>>), NoArray}

\* A client of lib/affordance.js: affordances with inputs, messages, a
\* relation and metadata.
NextAffordance ==
    \/ \E id \in {"C", NotAString} :
            NewAffordance(id, "GET", "/x", MaxFormObjects)
    \/ \E id \in LeafIdArgs : NewInput(id, "", MaxFormObjects)
    \/ \E this \in Addr, relation \in {"self", NotAString} : SetRelation(this, relation)
    \/ \E this \in Addr, metadata \in {ObjectLiteral([k \in {"a"} |-> 1]), NotAnObject} :
            SetMetadata(this, metadata)
    \/ \E this \in Addr, control \in Addr \cup {0} : AddInput(this, control)
    \/ \E this \in Addr, response \in ResponseArgs, message \in MessageArgs :
            AddMessage(this, response, message)
    \/ \E this \in Addr, response \in ResponseArgs : GetMessage(this, response)
    \/ \E this \in Addr : Copy(this)
    \/ Discard

SpecAffordance == Init /\ [][NextAffordance]_vars

(***************************************************************************)
(* Positions in a tree.                                                    *)
(***************************************************************************)
IndexOf(seq, x) == CHOOSE i \in 1..Len(seq) : seq[i] = x

\* The nodes below root form a tree: root is not below itself, and each of
\* them is in the children list of exactly one node of the tree.
TreeBelow(h, root) ==
    LET D == Descendants(h, root)
    IN /\ root \notin D
       /\ \A n \in D : Cardinality(Parents(h, n) \cap (D \cup {root})) = 1

ParentIn(h, root, n) ==
    CHOOSE p \in Parents(h, n) \cap (Descendants(h, root) \cup {root}) : TRUE

RECURSIVE Chain(_, _, _)
\* The nodes on the path from root down to n, both included.
Chain(h, root, n) ==
    IF n = root THEN <<root>>
    ELSE Append(Chain(h, root, ParentIn(h, root, n)), n)

RECURSIVE IndexPath(_, _, _)
\* The position of n below root: the index taken in each children list.
IndexPath(h, root, n) ==
    IF n = root THEN <<>>
    ELSE LET p == ParentIn(h, root, n)
         IN Append(IndexPath(h, root, p), IndexOf(h[p]._affordances, n))

\* p comes before q in pre-order: p is a proper prefix of q, or p is smaller
\* at the first index where they differ.
PreorderBefore(p, q) ==
    \/ Len(p) < Len(q) /\ \A i \in 1..Len(p) : p[i] = q[i]
    \/ \E i \in 1..Len(p) :
          /\ i <= Len(q)
          /\ p[i] < q[i]
          /\ \A j \in 1..(i - 1) : p[j] = q[j]

\* The nodes below root whose id is the string id, and the first of them in
\* pre-order.  An id that is not a string names no node.
Matches(h, root, id) ==
    IF TypeofString(id) THEN {n \in Descendants(h, root) : h[n]._id = id} ELSE {}

FirstMatch(h, root, id) ==
    CHOOSE n \in Matches(h, root, id) :
        \A m \in Matches(h, root, id) \ {n} :
            PreorderBefore(IndexPath(h, root, n), IndexPath(h, root, m))

OwnProps(h, n) == Props(h, h[n]._metadata)

\* Each key defined on the path, with the value the deepest node defining it
\* gives it.
DeepestWins(h, chain) ==
    [k \in UNION {DOMAIN OwnProps(h, chain[i]) : i \in 1..Len(chain)} |->
        LET i == CHOOSE i \in 1..Len(chain) :
                    /\ k \in DOMAIN OwnProps(h, chain[i])
                    /\ \A j \in (i + 1)..Len(chain) :
                          k \notin DOMAIN OwnProps(h, chain[j])
        IN OwnProps(h, chain[i])[k]]

(***************************************************************************)
(* C1.  copyAffordanceById(id) leaves the tree unchanged: every object     *)
(* that existed before the call (every node and every metadata map, those  *)
(* reachable from the receiver included) is the same after it, match or no *)
(* match; a returned copy is an object the call created.                   *)
(***************************************************************************)
C1_CopyAffordanceByIdLeavesTreeUnchanged ==
    [][lastCall'.op = "copyAffordanceById" =>
          /\ \A a \in Allocated(heap) : heap'[a] = heap[a]
          /\ lastCall'.ret # 0 => lastCall'.ret \notin Allocated(heap)]_vars

\* A match two levels down was copied and the copy got a merged metadata map
\* of its own, different from the matched node's.
C1_Witness ==
    /\ lastCall.op = "copyAffordanceById"
    /\ lastCall.st = "ok"
    /\ lastCall.ret # 0
    /\ heap[lastCall.ret]._metadata \in lastCall.fresh
    /\ LET n == FirstMatch(heap, lastCall.this, lastCall.id)
       IN /\ Len(Chain(heap, lastCall.this, n)) = 3
          /\ OwnProps(heap, lastCall.ret) # OwnProps(heap, n)

(***************************************************************************)
(* C2.  The metadata of the copy copyAffordanceById(id) returns maps each  *)
(* key to the value of the deepest node defining it on the path from the   *)
(* receiver down to the matched node, and has no other key; null is        *)
(* returned exactly when no node below the receiver has the id.            *)
(***************************************************************************)
C2_CascadeNearestAncestorWins ==
    (lastCall.op = "copyAffordanceById" /\ lastCall.st = "ok") =>
        IF Matches(heap, lastCall.this, lastCall.id) = {}
        THEN lastCall.ret = 0
        ELSE /\ lastCall.ret # 0
             /\ LET n == FirstMatch(heap, lastCall.this, lastCall.id)
                IN OwnProps(heap, lastCall.ret) =
                      DeepestWins(heap, Chain(heap, lastCall.this, n))

\* The example of the specification: R{a:1} holds C{a:2,b:2} holds L{b:3},
\* and the copy of L has {a:2,b:3}.
C2_Witness ==
    /\ lastCall.op = "copyAffordanceById"
    /\ lastCall.ret # 0
    /\ lastCall.id = "L"
    /\ LET n == FirstMatch(heap, lastCall.this, "L")
           chain == Chain(heap, lastCall.this, n)
       IN /\ Len(chain) = 3
          /\ OwnProps(heap, chain[1]) = [k \in {"a"} |-> 1]
          /\ OwnProps(heap, chain[2]) = [k \in {"a", "b"} |-> 2]
          /\ OwnProps(heap, chain[3]) = [k \in {"b"} |-> 3]
          /\ OwnProps(heap, lastCall.ret) = [k \in {"a", "b"} |-> IF k = "a" THEN 2 ELSE 3]

(***************************************************************************)
(* C8.  Affordances.copy() returns a tree of the same shape (the same kind *)
(* of node, id and metadata contents at every position, as many children   *)
(* in the same order) that shares no node with the receiver.               *)
(***************************************************************************)
RECURSIVE SameShape(_, _, _)
SameShape(h, a, b) ==
    /\ h[a].kind = h[b].kind
    /\ h[a]._id = h[b]._id
    /\ OwnProps(h, a) = OwnProps(h, b)
    /\ (h[a]._metadata = 0) = (h[b]._metadata = 0)
    /\ instanceofAffordances(h, a) =>
          /\ Len(h[a]._affordances) = Len(h[b]._affordances)
          /\ \A i \in 1..Len(h[a]._affordances) :
                SameShape(h, h[a]._affordances[i], h[b]._affordances[i])

C8_CopyIsEqualAndDisjoint ==
    (/\ lastCall.op = "copy"
     /\ instanceofAffordances(heap, lastCall.this)
     /\ lastCall.st = "ok") =>
        /\ lastCall.ret # 0
        /\ SameShape(heap, lastCall.this, lastCall.ret)
        /\ Reach(heap, {lastCall.this}) \cap Reach(heap, {lastCall.ret}) = {}

\* A tree three levels deep, with metadata, was copied.
C8_Witness ==
    /\ lastCall.op = "copy"
    /\ instanceofAffordances(heap, lastCall.this)
    /\ lastCall.st = "ok"
    /\ \E n \in Descendants(heap, lastCall.this) :
          /\ Len(Chain(heap, lastCall.this, n)) = 3
          /\ heap[n]._metadata # 0
    /\ Cardinality(Reach(heap, {lastCall.ret})) = 3

(***************************************************************************)
(* C3.  hasAffordanceWithId(id) returns true exactly when id is a string   *)
(* and some node below the receiver, at any depth, has that id; so it      *)
(* returns false for an absent id, for a non-string id and on an empty     *)
(* collection.                                                             *)
(***************************************************************************)
C3_HasAffordanceWithIdIffPresent ==
    (lastCall.op = "hasAffordanceWithId" /\ lastCall.st = "ok") =>
        (lastCall.val = "true") =
            (Matches(heap, lastCall.this, lastCall.id) # {})

\* The id was found two levels down, after a nested collection without it.
C3_Witness ==
    /\ lastCall.op = "hasAffordanceWithId"
    /\ lastCall.val = "true"
    /\ TreeBelow(heap, lastCall.this)
    /\ \A n \in Matches(heap, lastCall.this, lastCall.id) :
          Len(Chain(heap, lastCall.this, n)) = 3

(***************************************************************************)
(* C4.  No node is its own child or its own descendant.                    *)
(***************************************************************************)
C4_NoCycle ==
    \A a \in Composites(heap) : a \notin Descendants(heap, a)

(***************************************************************************)
(* C5.  forEachAffordance, hasAffordanceWithId and copy run to completion  *)
(* on every object graph built with the constructors and addAffordance.    *)
(***************************************************************************)
C5_TraversalsTerminate ==
    lastCall.op \in {"forEachAffordance", "hasAffordanceWithId", "copy",
                     "copyAffordanceById"}
        => lastCall.st = "ok"

(***************************************************************************)
(* C6.  No node is in the children lists of two different nodes.           *)
(***************************************************************************)
C6_SingleOwner ==
    \A a \in NodesOf(heap) : Cardinality(Parents(heap, a)) <= 1

(***************************************************************************)
(* C7.  A children list holds only Affordance and Affordances objects and  *)
(* no reference twice; addAffordance with anything else, or with a         *)
(* reference the list already holds, changes nothing, and otherwise it     *)
(* appends; getCount() is the number of references in the list.            *)
(***************************************************************************)
ChildrenListsOk(h) ==
    \A a \in Composites(h) :
        LET list == h[a]._affordances
        IN /\ \A i \in 1..Len(list) : IsNode(h, list[i])
           /\ \A i, j \in 1..Len(list) : list[i] = list[j] => i = j

C7_AddAffordanceKeepsListSound ==
    [][/\ ChildrenListsOk(heap')
       /\ lastCall'.op = "addAffordance" =>
             LET this == lastCall'.this
                 action == lastCall'.arg
             IN IF IsNode(heap, action) /\ action \notin Children(heap, this)
                THEN heap' = [heap EXCEPT ![this]._affordances = Append(@, action)]
                ELSE heap' = heap
       /\ lastCall'.op = "getCount" =>
             lastCall'.ret = Cardinality(Children(heap', lastCall'.this))]_vars

\* The same reference was added a second time, and the list holds it once.
C7_Witness ==
    /\ lastCall.op = "addAffordance"
    /\ ~lastCall.changed
    /\ heap[lastCall.this]._affordances = <<lastCall.arg>>
    /\ getCount(heap, lastCall.this) = 1

(***************************************************************************)
(* C10.  On a tree, forEachAffordance(callback) invokes the callback once  *)
(* for each Affordance below the receiver, never for an Affordances, in    *)
(* pre-order; with a callback that is no function it invokes nothing.      *)
(***************************************************************************)
C10_ForEachVisitsLeavesInPreorder ==
    (lastCall.op = "forEachAffordance" /\ TreeBelow(heap, lastCall.this)) =>
        LET this == lastCall.this
            seen == lastCall.seen
            leaves == {n \in Descendants(heap, this) : affordanceIsPrototypeOf(heap, n)}
        IN IF lastCall.val = "function"
           THEN /\ lastCall.st = "ok"
                /\ Range(seen) = leaves
                /\ Len(seen) = Cardinality(leaves)
                /\ \A i, j \in 1..Len(seen) :
                      i < j => PreorderBefore(IndexPath(heap, this, seen[i]),
                                              IndexPath(heap, this, seen[j]))
           ELSE seen = <<>>

\* A leaf inside a nested collection was visited before a leaf that follows
\* the collection.
C10_Witness ==
    /\ lastCall.op = "forEachAffordance"
    /\ TreeBelow(heap, lastCall.this)
    /\ Len(lastCall.seen) = 2
    /\ Len(IndexPath(heap, lastCall.this, lastCall.seen[1])) = 2
    /\ Len(IndexPath(heap, lastCall.this, lastCall.seen[2])) = 1

(***************************************************************************)
(* C9.  Affordance.copy() returns a new Affordance whose every field       *)
(* equals the original's: id, method, uri, relation, metadata, the inputs  *)
(* list (same presence, length and order, each Input a copy with equal     *)
(* fields) and the message table (getMessage(code) answers the same list   *)
(* on the copy and on the original, for every code).                       *)
(***************************************************************************)
InputFieldsEqual(h, a, b) ==
    [h[a] EXCEPT !.kind = "Input"] = [h[b] EXCEPT !.kind = "Input"]

C9_AffordanceCopyEqualsOriginal ==
    (/\ lastCall.op = "copy"
     /\ affordanceIsPrototypeOf(heap, lastCall.this)
     /\ lastCall.st = "ok") =>
        LET o == heap[lastCall.this]
            c == heap[lastCall.ret]
        IN /\ lastCall.ret # lastCall.this
           /\ c.kind = "Affordance"
           /\ c._id = o._id /\ c._method = o._method /\ c._uri = o._uri
           /\ c._relation = o._relation
           /\ c._metadata = o._metadata
           /\ c._controls.isArray = o._controls.isArray
           /\ Len(c._controls.arr) = Len(o._controls.arr)
           /\ \A i \in 1..Len(o._controls.arr) :
                 /\ c._controls.arr[i] # o._controls.arr[i]
                 /\ InputFieldsEqual(heap, c._controls.arr[i], o._controls.arr[i])
           /\ \A code \in ResponseArgs :
                 getMessage(heap, lastCall.ret, code) =
                    getMessage(heap, lastCall.this, code)

(***************************************************************************)
(* Plain objects: what toJSON returns, what JSON.parse hands to a reviver  *)
(* and what a client passes as an object literal.  A field that is absent  *)
(* is undefined.  Plain objects are values: nothing tests their identity.  *)
(***************************************************************************)
Null == "null"

\* The object literal {}
Plain ==
    [isObject |-> TRUE,
     _id |-> Undefined, _value |-> Undefined, _accept |-> NoArray,
     _hidden |-> Undefined, _label |-> Undefined, _options |-> NoArray,
     _readonly |-> Undefined, _regexp |-> Undefined, _required |-> Undefined,
     _method |-> Undefined, _uri |-> Undefined, _relation |-> Undefined,
     _metadata |-> 0, _controls |-> NoArray, _affordances |-> NoArray]

\* An argument that is not an object (undefined, a number).
NotPlain == [Plain EXCEPT !.isObject = FALSE]

\* Input.toJSON: the plain object holding the nine fields
inputToJSON(h, this) ==
    [Plain EXCEPT !._id = h[this]._id, !._value = h[this]._value,
                  !._accept = h[this]._accept, !._hidden = h[this]._hidden,
                  !._label = h[this]._label, !._options = h[this]._options,
                  !._readonly = h[this]._readonly, !._regexp = h[this]._regexp,
                  !._required = h[this]._required]

\* The nine fields of an Input.
InputFields ==
    {"_id", "_value", "_accept", "_hidden", "_label", "_options", "_readonly",
     "_regexp", "_required"}

\* input.canRevive(object)
inputCanRevive(object) ==
    /\ object.isObject
    /\ TypeofString(object._id)
    /\ object._value # Undefined

\* inputRevive without the test of the value.
inputReviveNoSetValue(h, object) ==
    IF ~inputCanRevive(object) THEN Ret("ok", h, 0)
    ELSE IF FreeCells(h) = {} THEN Ret("OutOfHeap", h, 0)
    ELSE LET c == Alloc(h)
             h0 == [h EXCEPT ![c] = Input(Undefined, Undefined)]
             h1 == setId(h0, c, object._id)
             h2 == setRequired(setAccept(h1, c, object._accept), c, object._required)
             h3 == setHidden(setLabel(h2, c, object._label), c, object._hidden)
             h4 == setValueOptions(setReadonly(h3, c, object._readonly), c,
                                   object._options)
         IN Ret("ok", setRegExp(h4, c, object._regexp), c)

\* input.revive(object): the new Input, or null (0)
inputRevive(h, object) ==
    IF ~(/\ object.isObject
         /\ TypeofString(object._id)
         /\ object._value # Undefined)
    THEN Ret("ok", h, 0)
    ELSE IF FreeCells(h) = {} THEN Ret("OutOfHeap", h, 0)
    ELSE LET c == Alloc(h)
             h0 == [h EXCEPT ![c] = Input(Undefined, Undefined)]
             h1 == setValue(setId(h0, c, object._id), c, object._value)
             h2 == setRequired(setAccept(h1, c, object._accept), c, object._required)
             h3 == setHidden(setLabel(h2, c, object._label), c, object._hidden)
             h4 == setValueOptions(setReadonly(h3, c, object._readonly), c,
                                   object._options)
         IN Ret("ok", setRegExp(h4, c, object._regexp), c)

(***************************************************************************)
(* lib/temp.js: HypermediaApi.  The request tree is an Affordances of the  *)
(* heap; the message table (lib/messages.js, lib/message.js) is the        *)
(* sequence of the entries added to it.                                    *)
(***************************************************************************)
\* message(req, res, msg): the entry of one exchange
Message(req, res, msg) == [req |-> req, res |-> res, msg |-> msg]

\* messages(): the empty table
Messages == <<>>

\* responses.hasMessageForExchange(req, res)
hasMessageForExchange(responses, req, res) ==
    \E i \in 1..Len(responses) : responses[i].req = req /\ responses[i].res = res

\* responses.getMessageForExchange(req, res): the index of the entry, or null (0)
getMessageForExchange(responses, req, res) ==
    IF hasMessageForExchange(responses, req, res)
    THEN CHOOSE i \in 1..Len(responses) :
            /\ responses[i].req = req /\ responses[i].res = res
            /\ \A j \in 1..(i - 1) :
                  ~(responses[j].req = req /\ responses[j].res = res)
    ELSE 0

\* responses.addMessage(entry)
messagesAddMessage(responses, entry) == Append(responses, entry)

\* function HypermediaApi(id), its request tree in the cell requests
HypermediaApi(id, requests) ==
    [kind |-> "HypermediaApi",
     _id |-> IF TypeofString(id) THEN id ELSE Undefined,
     _protocol |-> "HTTP/1.1",
     _mediatype |-> "application/naval+json",
     _requests |-> requests,
     _responses |-> Messages,
     _incomingRequest |-> 0]

\* hapi.isPrototypeOf(object)
hapiIsPrototypeOf(h, a) == a \in Addr /\ h[a].kind = "HypermediaApi"

\* Affordances.getAffordanceAtIndex, with null as 0
getAffordanceAtIndex(h, this, index) ==
    LET affordances == h[this]._affordances
    IN IF index >= Len(affordances) \/ index < 0 THEN 0 ELSE affordances[index + 1]

\* Affordances.getLastAffordance
getLastAffordance(h, this) == getAffordanceAtIndex(h, this, getCount(h, this) - 1)

\* addRequest without the search for the id.
addRequestNoLookup(h, this, id, method, uri) ==
    IF TypeofString(id) /\ TypeofString(method) /\ TypeofString(uri)
    THEN IF FreeCells(h) = {} THEN Ret("OutOfHeap", h, 0)
         ELSE Ret("ok",
                  addAffordance([h EXCEPT ![Alloc(h)] = Affordance(id, method, uri)],
                                h[this]._requests, Alloc(h)),
                  this)
    ELSE Ret("ok", h, this)

\* HypermediaApi.addRequest
addRequest(h, this, id, method, uri) ==
    LET requests == h[this]._requests
    IN IF /\ TypeofString(id) /\ TypeofString(method) /\ TypeofString(uri)
          /\ hasAffordanceWithId(h, requests, id, 1) = "false"
       THEN IF FreeCells(h) = {} THEN Ret("OutOfHeap", h, 0)
            ELSE LET a == Alloc(h)
                 IN Ret("ok",
                        addAffordance([h EXCEPT ![a] = Affordance(id, method, uri)],
                                      requests, a),
                        this)
       ELSE Ret("ok", h, this)

\* HypermediaApi.addInput
hapiAddInput(h, this, control) ==
    LET requests == h[this]._requests
        request == getLastAffordance(h, requests)
    IN IF affordanceIsPrototypeOf(h, request) /\ inputCanRevive(control)
       THEN LET k == inputRevive(h, control)
            IN IF k.st # "ok" THEN k ELSE Ret("ok", addInput(k.h, request, k.r), this)
       ELSE Ret("ok", h, this)

\* addMetadata that always sets the metadata of the request collection.
addMetadataOfCollection(h, this, meta) == setMetadata(h, h[this]._requests, meta)

\* HypermediaApi.addMetadata
addMetadata(h, this, meta) ==
    LET requests == h[this]._requests
        request == getLastAffordance(h, requests)
    IN IF request # 0 THEN setMetadata(h, request, meta)
       ELSE setMetadata(h, requests, meta)

\* addResponse without the test that the exchange has no message yet.
addResponseNoExchangeTest(h, this, req, res, msg) ==
    IF /\ hasAffordanceWithId(h, h[this]._requests, req, 1) = "true"
       /\ msg.isArray /\ Len(msg.arr) > 0
       /\ \A i \in 1..Len(msg.arr) :
             hasAffordanceWithId(h, h[this]._requests, msg.arr[i], 1) = "true"
    THEN [h EXCEPT ![this]._responses =
             messagesAddMessage(@, Message(req, res, msg.arr))]
    ELSE h

\* addResponse without the loop over msg.
addResponseNoLoop(h, this, req, res, msg) ==
    LET requests == h[this]._requests
        responses == h[this]._responses
    IN IF /\ ~hasMessageForExchange(responses, req, res)
          /\ hasAffordanceWithId(h, requests, req, 1) = "true"
          /\ msg.isArray /\ Len(msg.arr) > 0
       THEN [h EXCEPT ![this]._responses =
                messagesAddMessage(responses, Message(req, res, msg.arr))]
       ELSE h

\* HypermediaApi.addResponse
addResponse(h, this, req, res, msg) ==
    LET requests == h[this]._requests
        responses == h[this]._responses
    IN IF /\ ~hasMessageForExchange(responses, req, res)
          /\ hasAffordanceWithId(h, requests, req, 1) = "true"
          /\ msg.isArray /\ Len(msg.arr) > 0
       THEN IF \E i \in 1..Len(msg.arr) :
                  hasAffordanceWithId(h, requests, msg.arr[i], 1) # "true"
            THEN h
            ELSE [h EXCEPT ![this]._responses =
                     messagesAddMessage(responses, Message(req, res, msg.arr))]
       ELSE h

\* HypermediaApi.setResponses, with the table itself as the argument
setResponses(h, this, responses) == [h EXCEPT ![this]._responses = responses]

\* HypermediaApi.setIncomingRequest
setIncomingRequest(h, this, request) ==
    IF affordanceIsPrototypeOf(h, request)
    THEN [h EXCEPT ![this]._incomingRequest = request]
    ELSE h

(***************************************************************************)
(* lib/naval.js: the encode delegate, JSON.stringify(hypermedia, null,     *)
(* '    ').  The string is the sequence of its tokens; a field that is     *)
(* undefined is left out, as JSON.stringify leaves it out.                 *)
(***************************************************************************)
\* The keys of a metadata object, in the order they are written.
MetaKeys == <<"a", "b">>

RECURSIVE stringifyProps(_, _)
stringifyProps(props, i) ==
    IF i > Len(MetaKeys) THEN <<>>
    ELSE (IF MetaKeys[i] \in DOMAIN props
          THEN <<MetaKeys[i], ToString(props[MetaKeys[i]])>> ELSE <<>>)
         \o stringifyProps(props, i + 1)

stringifyField(name, value) ==
    IF value = Undefined THEN <<>> ELSE <<name, value>>

stringifyStrings(name, value) ==
    IF value.isArray THEN <<name, "[">> \o value.arr \o <<"]">> ELSE <<>>

stringifyMetadata(h, m) ==
    IF m = 0 THEN <<>>
    ELSE <<"_metadata", "{">> \o stringifyProps(Props(h, m), 1) \o <<"}">>

RECURSIVE stringify(_, _, _)
RECURSIVE stringifyArray(_, _, _, _)

\* The elements of an array of objects, from index i on.
stringifyArray(h, arr, i, d) ==
    IF i > Len(arr) THEN <<>>
    ELSE stringify(h, arr[i], d + 1) \o stringifyArray(h, arr, i + 1, d)

\* JSON.stringify of an object with its toJSON (Affordances.toJSON,
\* Affordance.toJSON, Input.toJSON)
stringify(h, a, d) ==
    IF d > MaxCallStack THEN <<"RangeError">>
    ELSE LET o == h[a]
         IN IF o.kind = "Affordances"
            THEN <<"{">> \o stringifyField("_id", o._id)
                 \o stringifyMetadata(h, o._metadata)
                 \o <<"_affordances", "[">>
                 \o stringifyArray(h, o._affordances, 1, d) \o <<"]", "}">>
            ELSE IF o.kind = "Affordance"
            THEN <<"{", "_id", o._id, "_method", o._method, "_uri", o._uri>>
                 \o stringifyField("_relation", o._relation)
                 \o stringifyMetadata(h, o._metadata)
                 \o (IF o._controls.isArray
                     THEN <<"_controls", "[">>
                          \o stringifyArray(h, o._controls.arr, 1, d) \o <<"]">>
                     ELSE <<>>)
                 \o <<"}">>
            ELSE <<"{", "_id", o._id, "_value", o._value>>
                 \o stringifyStrings("_accept", o._accept)
                 \o stringifyField("_hidden", o._hidden)
                 \o stringifyField("_label", o._label)
                 \o stringifyStrings("_options", o._options)
                 \o stringifyField("_readonly", o._readonly)
                 \o stringifyField("_regexp", o._regexp)
                 \o stringifyField("_required", o._required)
                 \o <<"}">>

\* encoder(naval).encode(hypermedia)
encode(h, hypermedia) == stringify(h, hypermedia, 1)

(***************************************************************************)
(* HypermediaApi.respond                                                   *)
(***************************************************************************)
RECURSIVE respondLoop(_, _, _, _, _)
RECURSIVE respondLoopNoCopy(_, _, _, _, _)
RECURSIVE respondLoopPrepends(_, _, _, _, _)

\* respondLoop adding the node of the request tree itself, not a copy of it.
respondLoopNoCopy(h, hypermedia, requests, message, i) ==
    IF i > Len(message) THEN Ret("ok", h, hypermedia)
    ELSE LET found == {a \in Range(h[requests]._affordances) : h[a]._id = message[i]}
         IN respondLoopNoCopy(
                IF found = {} THEN h
                ELSE addAffordance(h, hypermedia, CHOOSE a \in found : TRUE),
                hypermedia, requests, message, i + 1)

\* respondLoop putting each copy in front of the ones before it.
respondLoopPrepends(h, hypermedia, requests, message, i) ==
    IF i > Len(message) THEN Ret("ok", h, hypermedia)
    ELSE LET k == copyAffordanceById(h, requests, message[i], 1)
         IN IF k.st # "ok" THEN k
            ELSE respondLoopPrepends(
                     IF k.r = 0 THEN k.h
                     ELSE [k.h EXCEPT ![hypermedia]._affordances = <<k.r>> \o @],
                     hypermedia, requests, message, i + 1)

RECURSIVE respondAdd(_, _, _, _, _)

\* for (var request in message) hypermedia.addAffordance(
\*     requests.copyAffordanceById(message[request])), from index i on
respondLoop(h, hypermedia, requests, message, i) ==
    IF i > Len(message) THEN Ret("ok", h, hypermedia)
    ELSE respondAdd(copyAffordanceById(h, requests, message[i], 1),
                    hypermedia, requests, message, i)

\* hypermedia.addAffordance(k.r) for the copy k.r just made, and the rest of
\* the loop
respondAdd(k, hypermedia, requests, message, i) ==
    IF k.st # "ok" THEN k
    ELSE respondLoop(addAffordance(k.h, hypermedia, k.r),
                     hypermedia, requests, message, i + 1)

\* What respond leaves: how it ended, the heap, the tree handed to the
\* encoder (0 when the encoder is not called) and the string returned.
Responded(st, h, r, out) == [st |-> st, h |-> h, r |-> r, out |-> out]

\* respond without the early return: an exchange without a message gets the
\* encoding of an empty collection.
respondNoEarlyReturn(h, this, res) ==
    IF FreeCells(h) = {} THEN Responded("OutOfHeap", h, 0, <<>>)
    ELSE LET incoming == h[this]._incomingRequest
             req == IF affordanceIsPrototypeOf(h, incoming)
                    THEN h[incoming]._id ELSE Null
             responses == h[this]._responses
             response == getMessageForExchange(responses, req, res)
             hypermedia == Alloc(h)
             k == respondLoop([h EXCEPT ![hypermedia] = Affordances(Undefined)],
                              hypermedia, h[this]._requests,
                              IF response = 0 THEN <<>> ELSE responses[response].msg,
                              1)
         IN IF k.st # "ok" THEN Responded(k.st, h, 0, <<>>)
            ELSE Responded("ok", k.h, hypermedia, encode(k.h, hypermedia))

\* return encoder(naval).encode(hypermedia), k being what the loop left
respondEncode(h, k, hypermedia) ==
    IF k.st # "ok" THEN Responded(k.st, h, 0, <<>>)
    ELSE Responded("ok", k.h, hypermedia, encode(k.h, hypermedia))

\* HypermediaApi.respond
respond(h, this, res) ==
    LET incoming == h[this]._incomingRequest
        req == IF affordanceIsPrototypeOf(h, incoming) THEN h[incoming]._id ELSE Null
        requests == h[this]._requests
        responses == h[this]._responses
        response == getMessageForExchange(responses, req, res)
    IN IF response = 0 THEN Responded("ok", h, 0, <<>>)
       ELSE IF FreeCells(h) = {} THEN Responded("OutOfHeap", h, 0, <<>>)
       ELSE LET hypermedia == Alloc(h)
                message == responses[response].msg
            IN respondEncode(h,
                   respondLoop([h EXCEPT ![hypermedia] = Affordances(Undefined)],
                               hypermedia, requests, message, 1),
                   hypermedia)

(***************************************************************************)
(* The program that declares an API and answers requests with it.          *)
(***************************************************************************)
\* Objects the declaration of the API creates: the HypermediaApi, its
\* request tree, the requests, their inputs and the metadata literals.
MaxApiObjects == 6

TheApis(h) == {a \in Addr : hapiIsPrototypeOf(h, a)}

\* hapi(id)
NewHypermediaApi(id) ==
    /\ Idle
    /\ TheApis(heap) = {}
    /\ LET this == Alloc(heap)
           h0 == [heap EXCEPT ![this] = HypermediaApi(id, 0)]
           requests == Alloc(h0)
       IN heap' = [h0 EXCEPT ![requests] = Affordances(Undefined),
                             ![this]._requests = requests]
    /\ UNCHANGED lastCall

\* this.addRequest(id, method, uri)
AddRequest(this, id, method, uri) ==
    /\ Idle
    /\ hapiIsPrototypeOf(heap, this)
    /\ LET k == addRequest(heap, this, id, method, uri)
       IN /\ k.st = "ok"
          /\ heap' = k.h
    /\ getCount(heap', heap[this]._requests) <= MaxChildren
    /\ Cardinality(Allocated(heap')) <= MaxApiObjects
    /\ UNCHANGED lastCall

\* this.addInput(control)
HapiAddInput(this, control) ==
    /\ Idle
    /\ hapiIsPrototypeOf(heap, this)
    /\ LET k == hapiAddInput(heap, this, control)
       IN /\ k.st = "ok"
          /\ heap' = k.h
    /\ Cardinality(Allocated(heap')) <= MaxApiObjects
    /\ UNCHANGED lastCall

\* this.addMetadata(meta) with an object literal or with undefined.  The
\* literal replaces the one the node had, which nothing else refers to.
AddMetadata(this, meta) ==
    /\ Idle
    /\ hapiIsPrototypeOf(heap, this)
    /\ LET requests == heap[this]._requests
           request == getLastAffordance(heap, requests)
           node == IF request # 0 THEN request ELSE requests
           cell == IF heap[node]._metadata # 0 THEN heap[node]._metadata
                   ELSE Alloc(heap)
       IN heap' = IF meta.isObject
                  THEN addMetadata([heap EXCEPT ![cell] = Object(meta.props)],
                                   this, cell)
                  ELSE addMetadata(heap, this, 0)
    /\ Cardinality(Allocated(heap')) <= MaxApiObjects
    /\ UNCHANGED lastCall

\* this.addResponse(req, res, msg)
AddResponse(this, req, res, msg) ==
    /\ Idle
    /\ hapiIsPrototypeOf(heap, this)
    /\ heap' = addResponse(heap, this, req, res, msg)
    /\ UNCHANGED lastCall

\* this.setResponses(responses) with a table filled by its own addMessage
SetResponses(this, responses) ==
    /\ Idle
    /\ hapiIsPrototypeOf(heap, this)
    /\ heap' = setResponses(heap, this, responses)
    /\ UNCHANGED lastCall

\* this.setIncomingRequest(request)
SetIncomingRequest(this, request) ==
    /\ Idle
    /\ hapiIsPrototypeOf(heap, this)
    /\ request \in Allocated(heap) \cup {0}
    /\ heap' = setIncomingRequest(heap, this, request)
    /\ UNCHANGED lastCall

\* this.respond(res)
Respond(this, res) ==
    /\ Idle
    /\ hapiIsPrototypeOf(heap, this)
    /\ \E k \in {respond(heap, this, res)} :
          /\ k.st # "OutOfHeap"
          /\ heap' = k.h
          /\ lastCall' = [Call("respond", this, res, 0) EXCEPT
                             !.st = k.st, !.ret = k.r, !.seen = k.out,
                             !.fresh = Allocated(k.h) \ Allocated(heap)]

\* The arguments of the declaration.
RequestIdArgs == {"L", "C", NotAString}
ControlArgs ==
    { [Plain EXCEPT !._id = "L", !._value = ""],
      [Plain EXCEPT !._id = "L"],
      NotPlain }
ApiMetaArgs == {ObjectLiteral([k \in {"a"} |-> 1]),
                ObjectLiteral([k \in {"a", "b"} |-> 2]), NotAnObject}
ExchangeIdArgs == {"L", "C"}
CodeArgs == {"200", "404"}
ApiMessageArgs ==
    {Array(<<"L">>), Array(<<"C", "L">>), Array(<<"R">>),
     Array(<<"L", NotAString>>), Array(<<>>), NoArray}

\* A table whose list holds an id no request has and a value that is no string.
StaleTables == { <<Message("L", "200", <<"R", NotAString, "L">>)>> }

\* An API declared with addRequest, addInput, addMetadata and addResponse,
\* answering requests with respond.
NextApi ==
    \/ NewHypermediaApi(Undefined)
    \/ \E this \in Addr, id \in RequestIdArgs : AddRequest(this, id, "GET", "/x")
    \/ \E this \in Addr, control \in ControlArgs : HapiAddInput(this, control)
    \/ \E this \in Addr, meta \in ApiMetaArgs : AddMetadata(this, meta)
    \/ \E this \in Addr, req \in ExchangeIdArgs, msg \in ApiMessageArgs :
            AddResponse(this, req, "200", msg)
    \/ \E this \in Addr, request \in Addr \cup {0} : SetIncomingRequest(this, request)
    \/ \E this \in Addr, res \in CodeArgs : Respond(this, res)
    \/ Discard

SpecApi == Init /\ [][NextApi]_vars

\* The same, with a message table the client filled itself.
NextAssemble ==
    \/ NewHypermediaApi(Undefined)
    \/ \E this \in Addr, id \in RequestIdArgs : AddRequest(this, id, "GET", "/x")
    \/ \E this \in Addr, control \in ControlArgs : HapiAddInput(this, control)
    \/ \E this \in Addr, meta \in ApiMetaArgs : AddMetadata(this, meta)
    \/ \E this \in Addr, req \in ExchangeIdArgs, msg \in ApiMessageArgs :
            AddResponse(this, req, "200", msg)
    \/ \E this \in Addr, responses \in StaleTables : SetResponses(this, responses)
    \/ \E this \in Addr, request \in Addr \cup {0} : SetIncomingRequest(this, request)
    \/ \E this \in Addr, res \in CodeArgs : Respond(this, res)
    \/ Discard

SpecAssemble == Init /\ [][NextAssemble]_vars

(***************************************************************************)
(* What respond works on, read from the state after the call: respond      *)
(* changes neither the API object nor the request tree.                    *)
(***************************************************************************)
\* The id respond resolves: the bound request's, or null.
BoundId(h, this) ==
    IF affordanceIsPrototypeOf(h, h[this]._incomingRequest)
    THEN h[h[this]._incomingRequest]._id ELSE Null

\* The message list registered for the exchange, <<>> when there is none.
ExchangeMessage(h, this, res) ==
    LET i == getMessageForExchange(h[this]._responses, BoundId(h, this), res)
    IN IF i = 0 THEN <<>> ELSE h[this]._responses[i].msg

HasExchange(h, this, res) ==
    hasMessageForExchange(h[this]._responses, BoundId(h, this), res)

\* The inputs of a set of nodes, and every object a tree is made of: its
\* nodes, their inputs and their metadata maps.
InputsOf(h, S) ==
    UNION {Range(h[a]._controls.arr) : a \in {b \in S : affordanceIsPrototypeOf(h, b)}}

ObjectsOf(h, root) ==
    LET N == Reach(h, {root})
    IN N \cup InputsOf(h, N) \cup ({h[a]._metadata : a \in N} \ {0})

(***************************************************************************)
(* C11.  respond changes no object that existed before the call, so the    *)
(* request tree of the API is as it was; and every object of the tree it   *)
(* assembles (node, input, metadata map) was created by the call, so no    *)
(* node of the response is a node of the request tree.                     *)
(***************************************************************************)
C11_RespondBuildsFromFreshCopies ==
    [][lastCall'.op = "respond" =>
          /\ \A a \in Allocated(heap) : heap'[a] = heap[a]
          /\ lastCall'.ret # 0 =>
                /\ ObjectsOf(heap', lastCall'.ret) \cap Allocated(heap) = {}
                /\ Reach(heap', {lastCall'.ret}) \cap
                      Reach(heap', {heap'[lastCall'.this]._requests}) = {}]_vars

\* A response with the copy of a request that has an input and metadata.
C11_Witness ==
    /\ lastCall.op = "respond"
    /\ lastCall.ret # 0
    /\ \E c \in Children(heap, lastCall.ret) :
          /\ heap[c]._controls.isArray
          /\ Len(heap[c]._controls.arr) = 1
          /\ heap[c]._metadata # 0

(***************************************************************************)
(* C12.  When a message list is registered for the exchange, the tree      *)
(* respond hands to the encoder is a new Affordances without id and        *)
(* metadata whose children are, in the order of the list, the copies       *)
(* copyAffordanceById makes for the ids of the list that some request has: *)
(* the fields of the request found, its inputs copied, and the metadata of *)
(* the request tree cascaded onto its own.  An id no request has, or a     *)
(* value that is no string, adds no child and raises nothing.              *)
(***************************************************************************)
\* c is what requests.copyAffordanceById gives for the request n.
IsCopyById(h, requests, n, c) ==
    /\ c # n
    /\ h[c].kind = h[n].kind
    /\ h[c]._id = h[n]._id /\ h[c]._method = h[n]._method /\ h[c]._uri = h[n]._uri
    /\ h[c]._relation = h[n]._relation
    /\ OwnProps(h, c) = DeepestWins(h, Chain(h, requests, n))
    /\ Len(h[c]._controls.arr) = Len(h[n]._controls.arr)
    /\ \A i \in 1..Len(h[n]._controls.arr) :
          InputFieldsEqual(h, h[c]._controls.arr[i], h[n]._controls.arr[i])

C12_RespondAssemblesListedCopies ==
    (/\ lastCall.op = "respond"
     /\ HasExchange(heap, lastCall.this, lastCall.id)) =>
        LET this == lastCall.this
            requests == heap[this]._requests
            message == ExchangeMessage(heap, this, lastCall.id)
            found == SelectSeq(message, LAMBDA id : Matches(heap, requests, id) # {})
            hypermedia == lastCall.ret
        IN /\ lastCall.st = "ok"
           /\ hypermedia \in lastCall.fresh
           /\ instanceofAffordances(heap, hypermedia)
           /\ heap[hypermedia]._id = Undefined
           /\ heap[hypermedia]._metadata = 0
           /\ Len(heap[hypermedia]._affordances) = Len(found)
           /\ \A i \in 1..Len(found) :
                 IsCopyById(heap, requests, FirstMatch(heap, requests, found[i]),
                            heap[hypermedia]._affordances[i])

\* The list names two requests, the second declared first, and the response
\* holds their copies in the order of the list.
C12_Witness ==
    /\ lastCall.op = "respond"
    /\ lastCall.ret # 0
    /\ ExchangeMessage(heap, lastCall.this, lastCall.id) = <<"C", "L">>
    /\ Len(heap[lastCall.ret]._affordances) = 2
    /\ heap[heap[heap[lastCall.this]._requests]._affordances[1]]._id = "L"

(***************************************************************************)
(* C13.  respond(code) returns the empty string, calls no encoder and      *)
(* raises nothing when no request is bound or the table has no message     *)
(* for (request id, code).                                                 *)
(***************************************************************************)
C13_RespondWithoutMessageIsEmpty ==
    (/\ lastCall.op = "respond"
     /\ \/ heap[lastCall.this]._incomingRequest = 0
        \/ ~HasExchange(heap, lastCall.this, lastCall.id)) =>
        /\ lastCall.st = "ok"
        /\ lastCall.seen = <<>>
        /\ lastCall.ret = 0
        /\ lastCall.fresh = {}

\* A request is bound and has a message for another code.
C13_Witness ==
    /\ lastCall.op = "respond"
    /\ heap[lastCall.this]._incomingRequest # 0
    /\ lastCall.id = "404"
    /\ HasExchange(heap, lastCall.this, "200")
    /\ lastCall.seen = <<>>

(***************************************************************************)
(* C14.  Every id of every registered message list is the id of a request  *)
(* of the tree, so respond finds a request for every id of the list.       *)
(***************************************************************************)
C14_RegisteredIdsExist ==
    \A this \in TheApis(heap) :
        /\ \A i \in 1..Len(heap[this]._responses) :
              \A j \in 1..Len(heap[this]._responses[i].msg) :
                 Matches(heap, heap[this]._requests,
                         heap[this]._responses[i].msg[j]) # {}
        /\ (lastCall.op = "respond" /\ lastCall.ret # 0) =>
              Len(heap[lastCall.ret]._affordances) =
                 Len(ExchangeMessage(heap, this, lastCall.id))

\* Two messages are registered, one of them listing two requests.
C14_Witness ==
    \E this \in TheApis(heap) :
        /\ Len(heap[this]._responses) = 2
        /\ \E i \in 1..2 : Len(heap[this]._responses[i].msg) = 2

(***************************************************************************)
(* A client that calls cascadeMetadata itself.  Each object literal it     *)
(* passes to setMetadata is a new object; after a call, the maps nothing   *)
(* refers to any more are garbage.                                         *)
(***************************************************************************)
MaxCascadeNodes == 2

\* The object literals this client passes to setMetadata: the empty object
\* {} among them.
CascadeLiterals ==
    { <<>>,
      [k \in {"a"} |-> 1],
      [k \in {"a", "b"} |-> 2] }

CascadeMetaArgs == {ObjectLiteral(p) : p \in CascadeLiterals} \cup {NotAnObject}

\* The maps some node's metadata field refers to.
ReferencedMaps(h) == {h[n]._metadata : n \in {a \in Addr : IsNode(h, a)}} \ {0}

\* The heap once the maps nothing refers to are collected.
Collected(h) ==
    [a \in Addr |->
        IF h[a].kind = "Object" /\ a \notin ReferencedMaps(h) THEN Free ELSE h[a]]

\* this.setMetadata({...}) with a new object literal, or with undefined
CascadeSetMetadata(this, metadata) ==
    /\ Idle
    /\ IsNode(heap, this)
    /\ heap' = IF metadata.isObject
               THEN Collected(setMetadata([heap EXCEPT ![Alloc(heap)] = Object(metadata.props)],
                                          this, Alloc(heap)))
               ELSE setMetadata(heap, this, 0)
    /\ UNCHANGED lastCall

\* this.cascadeMetadata(parentMeta), parentMeta being the metadata of a node
\* (the receiver's own included) or undefined
CascadeMetadata(this, parentMeta) ==
    /\ Idle
    /\ IsNode(heap, this)
    /\ parentMeta \in ReferencedMaps(heap) \cup {0}
    /\ \E k \in {cascadeMetadata(heap, this, parentMeta)} :
          /\ heap' = k.h
          /\ lastCall' = [Call("cascadeMetadata", this, Undefined, parentMeta)
                             EXCEPT !.st = k.st, !.ret = k.r]

\* The client goes on; the maps nothing refers to any more are collected.
CascadeDone ==
    /\ lastCall.op = "cascadeMetadata"
    /\ heap' = Collected(heap)
    /\ lastCall' = NoCall

NextCascade ==
    \/ \E id \in IdArgs : NewAffordances(id, MaxCascadeNodes)
    \/ \E id \in LeafIdArgs : NewAffordance(id, "GET", "/x", MaxCascadeNodes)
    \/ \E this \in Addr, metadata \in CascadeMetaArgs : CascadeSetMetadata(this, metadata)
    \/ \E this \in Addr, parentMeta \in Addr \cup {0} : CascadeMetadata(this, parentMeta)
    \/ CascadeDone

SpecCascade == Init /\ [][NextCascade]_vars

\* The fields a metadata reference contributes to a merge: those of the map,
\* none when the reference is undefined.
FieldsOf(h, m) == IF IsObject(h, m) THEN h[m].props ELSE <<>>

\* heap'[this]._metadata is a map created by the step, holding the parent's
\* fields overwritten by the receiver's own.
IsFreshMerge(this, parentMeta) ==
    LET c == heap[this]._metadata
        m == heap'[this]._metadata
        p == FieldsOf(heap, parentMeta)
        o == FieldsOf(heap, c)
    IN /\ m \in FreeCells(heap)
       /\ heap'[m].kind = "Object"
       /\ DOMAIN heap'[m].props = DOMAIN p \cup DOMAIN o
       /\ \A key \in DOMAIN heap'[m].props :
             heap'[m].props[key] = IF key \in DOMAIN o THEN o[key] ELSE p[key]

\* The step changes no object that existed before it, the receiver's
\* metadata field apart.
OnlyMetadataFieldChanges(this) ==
    /\ \A a \in Allocated(heap) \ {this} : heap'[a] = heap[a]
    /\ [heap'[this] EXCEPT !._metadata = 0] = [heap[this] EXCEPT !._metadata = 0]

\* C15 (as amended): cascadeMetadata(parentMeta) sets the receiver's metadata
\* to a newly created map holding the parent's fields overwritten by the
\* receiver's own fields on key collision whenever either side is an object
\* (an empty object included: the result is then a new empty map), and leaves
\* it absent only when neither side is an object; it never modifies the
\* parent's map nor the map previously stored on the receiver, and returns
\* the receiver.
C15_CascadeMergesOntoNewMap ==
    [][(lastCall'.op = "cascadeMetadata" /\ lastCall'.st = "ok" /\ Idle) =>
         LET this == lastCall'.this
             parentMeta == lastCall'.arg
         IN /\ lastCall'.ret = this
            /\ OnlyMetadataFieldChanges(this)
            /\ IF IsObject(heap, parentMeta) \/ IsObject(heap, heap[this]._metadata)
               THEN IsFreshMerge(this, parentMeta)
               ELSE heap'[this]._metadata = 0]_vars

\* C15 (as stated): the metadata is left absent when neither side has any
\* fields, and is a newly created merged map otherwise.
C15_AbsentWhenNoFields ==
    [][(lastCall'.op = "cascadeMetadata" /\ lastCall'.st = "ok" /\ Idle) =>
         LET this == lastCall'.this
             parentMeta == lastCall'.arg
         IN /\ OnlyMetadataFieldChanges(this)
            /\ IF DOMAIN FieldsOf(heap, parentMeta) \cup
                  DOMAIN FieldsOf(heap, heap[this]._metadata) = {}
               THEN heap'[this]._metadata = 0
               ELSE IsFreshMerge(this, parentMeta)]_vars

\* A cascade has merged a parent's map with a field "a" and "b" onto a
\* receiver whose own map has "a": the receiver's value of "a" is kept, the
\* parent's "b" is added, and both maps are still there.
C15_Witness ==
    /\ lastCall.op = "cascadeMetadata"
    /\ lastCall.st = "ok"
    /\ lastCall.arg # 0
    /\ heap[lastCall.arg].kind = "Object"
    /\ heap[lastCall.arg].props = [k \in {"a", "b"} |-> 2]
    /\ heap[heap[lastCall.this]._metadata].props = (("a" :> 1) @@ ("b" :> 2))
    /\ \E c \in Addr \ {lastCall.arg, heap[lastCall.this]._metadata} :
          heap[c].kind = "Object" /\ heap[c].props = [k \in {"a"} |-> 1]

(***************************************************************************)
(* A client of the message table of lib/affordance.js: it constructs       *)
(* affordances and calls addMessage, with arguments of every shape.        *)
(***************************************************************************)
\* The lists this client passes: two lists of strings, a list holding a
\* non-string, the empty list and a value that is not an array.
MaxTableObjects == 2

TableMessageArgs == MessageArgs \cup {Array(<<"C", "L">>)}

\* this.addMessage(response, message), the arguments remembered
AddMessageCall(this, response, message) ==
    /\ Idle
    /\ affordanceIsPrototypeOf(heap, this)
    /\ heap' = addMessage(heap, this, response, message)
    /\ lastCall' = [Call("addMessage", this, response, this) EXCEPT
                       !.val = IF message.isArray THEN "array" ELSE Undefined,
                       !.seen = message.arr,
                       !.ret = this]

\* The client goes on to its next call.
AddMessageDone ==
    /\ lastCall.op = "addMessage"
    /\ UNCHANGED heap
    /\ lastCall' = NoCall

NextMessages ==
    \/ \E id \in {"C", NotAString} :
            NewAffordance(id, "GET", "/x", MaxTableObjects)
    \/ \E this \in Addr, response \in ResponseArgs, message \in TableMessageArgs :
            AddMessageCall(this, response, message)
    \/ AddMessageDone

SpecMessages == Init /\ [][NextMessages]_vars

\* A non-empty array whose every element is a string.
IsIdList(list) ==
    /\ Len(list) > 0
    /\ \A i \in 1..Len(list) : TypeofString(list[i])

\* The table has an entry for '*' and every entry is a list of ids.
TableIsSound(messages) ==
    /\ "*" \in DOMAIN messages
    /\ \A code \in DOMAIN messages : TypeofString(code) /\ IsIdList(messages[code])

\* C16: in every state reached by the Affordance constructor and addMessage
\* calls, the message table of every affordance has an entry for '*', which
\* is the singleton list of the affordance's own id when it is constructed,
\* and every entry is a non-empty array of strings; addMessage with a
\* non-string response code, an empty list, a value that is not an array or
\* a list holding a non-string changes nothing and returns the receiver.
C16_MessageTableStaysSound ==
    [][/\ \A a \in Addr :
            affordanceIsPrototypeOf(heap', a) => TableIsSound(heap'[a]._messages)
       /\ \A a \in Addr :
            (heap[a].kind = "free" /\ affordanceIsPrototypeOf(heap', a))
                => heap'[a]._messages = [c \in {"*"} |-> <<heap'[a]._id>>]
       /\ (Idle /\ lastCall'.op = "addMessage")
            => /\ lastCall'.ret = lastCall'.this
               /\ (~(/\ TypeofString(lastCall'.id)
                     /\ lastCall'.val = "array"
                     /\ IsIdList(lastCall'.seen)))
                     => heap' = heap]_vars

\* addMessage('200', ['L', 7]) has just been refused on an affordance whose
\* table holds a list for '200' and a replaced list for '*'.
C16_Witness ==
    /\ lastCall.op = "addMessage"
    /\ lastCall.id = "200"
    /\ lastCall.seen = <<"L", NotAString>>
    /\ heap[lastCall.this]._messages = (("*" :> <<"L">>) @@ ("200" :> <<"C", "L">>))
    /\ heap[lastCall.this]._id = "C"

(***************************************************************************)
(* A client of lib/input.js: it constructs an Input and calls its setters, *)
(* each with arguments that pass and arguments that fail the setter's test.*)
(***************************************************************************)
MaxInputs == 1

\* The setters taking a string, a boolean or any defined value, and the
\* setters taking an array.
ScalarSetters ==
    {"setId", "setValue", "setRequired", "setLabel", "setHidden", "setReadonly",
     "setRegExp"}
ArraySetters == {"setAccept", "setValueOptions"}

\* The arguments: a string, the boolean true, undefined; a list, the empty
\* list, a value that is not an array.
ScalarArgs == {"L", "true", Undefined}
ArrayArgs == {Array(<<"L">>), Array(<<>>), NoArray}

\* this[setter](value), for a setter of ScalarSetters
callScalarSetter(h, this, setter, value) ==
    CASE setter = "setId" -> setId(h, this, value)
      [] setter = "setValue" -> setValue(h, this, value)
      [] setter = "setRequired" -> setRequired(h, this, value)
      [] setter = "setLabel" -> setLabel(h, this, value)
      [] setter = "setHidden" -> setHidden(h, this, value)
      [] setter = "setReadonly" -> setReadonly(h, this, value)
      [] setter = "setRegExp" -> setRegExp(h, this, value)

\* this[setter](value), for a setter of ArraySetters
callArraySetter(h, this, setter, value) ==
    CASE setter = "setAccept" -> setAccept(h, this, value)
      [] setter = "setValueOptions" -> setValueOptions(h, this, value)

\* this.setId(v), this.setValue(v), ... : the setter returns this
CallScalarSetter(this, setter, value) ==
    /\ Idle
    /\ inputIsPrototypeOf(heap, this)
    /\ heap' = callScalarSetter(heap, this, setter, value)
    /\ lastCall' = [Call(setter, this, value, 0) EXCEPT !.ret = this]

\* this.setAccept(v), this.setValueOptions(v): the setter returns this
CallArraySetter(this, setter, value) ==
    /\ Idle
    /\ inputIsPrototypeOf(heap, this)
    /\ heap' = callArraySetter(heap, this, setter, value)
    /\ lastCall' = [Call(setter, this, Undefined, 0) EXCEPT
                       !.ret = this,
                       !.val = IF value.isArray THEN "array" ELSE Undefined,
                       !.seen = value.arr]

\* input.revive(this.toJSON())
ReviveToJSON(this) ==
    /\ Idle
    /\ inputIsPrototypeOf(heap, this)
    /\ \E k \in {inputRevive(heap, inputToJSON(heap, this))} :
          /\ heap' = k.h
          /\ lastCall' = [Call("revive", this, Undefined, 0) EXCEPT
                             !.st = k.st, !.ret = k.r, !.fresh = {k.r} \ {0}]

NextInput ==
    \/ \E id \in {"C", NotAString}, value \in {"C", Undefined} :
            NewInput(id, value, MaxInputs)
    \/ \E this \in Addr, setter \in ScalarSetters, value \in ScalarArgs :
            CallScalarSetter(this, setter, value)
    \/ \E this \in Addr, setter \in ArraySetters, value \in ArrayArgs :
            CallArraySetter(this, setter, value)
    \/ \E this \in Addr : ReviveToJSON(this)
    \/ Discard

SpecInput == Init /\ [][NextInput]_vars

\* The field each setter writes.
SetterField(setter) ==
    CASE setter = "setId" -> "_id"
      [] setter = "setValue" -> "_value"
      [] setter = "setRequired" -> "_required"
      [] setter = "setLabel" -> "_label"
      [] setter = "setHidden" -> "_hidden"
      [] setter = "setReadonly" -> "_readonly"
      [] setter = "setRegExp" -> "_regexp"
      [] setter = "setAccept" -> "_accept"
      [] setter = "setValueOptions" -> "_options"

\* The argument of the call passes the setter's test.
SetterAccepts(call) ==
    CASE call.op \in {"setId", "setLabel", "setRegExp"} -> TypeofString(call.id)
      [] call.op \in {"setRequired", "setHidden", "setReadonly"} -> TypeofBoolean(call.id)
      [] call.op = "setValue" -> call.id # Undefined
      [] call.op \in ArraySetters -> call.val = "array" /\ Len(call.seen) > 0

\* The argument of the call.
SetterArgument(call) ==
    IF call.op \in ArraySetters THEN Array(call.seen) ELSE call.id

\* C17: every Input setter (setId, setValue, setAccept, setRequired,
\* setLabel, setHidden, setReadonly, setValueOptions, setRegExp) called with
\* an argument that fails its type or shape test leaves every field of the
\* Input unchanged, signals no error and returns the receiver; called with a
\* valid argument it sets its own field to the argument and changes no
\* other field.
C17_SettersAreTotal ==
    [][(Idle /\ lastCall'.op \in ScalarSetters \cup ArraySetters) =>
         LET call == lastCall'
             this == call.this
             field == SetterField(call.op)
         IN /\ call.st = "ok"
            /\ call.ret = this
            /\ \A a \in Addr \ {this} : heap'[a] = heap[a]
            /\ DOMAIN heap'[this] = DOMAIN heap[this]
            /\ \A g \in DOMAIN heap[this] \ {field} : heap'[this][g] = heap[this][g]
            /\ heap'[this][field] = IF SetterAccepts(call)
                                    THEN SetterArgument(call)
                                    ELSE heap[this][field]]_vars

\* setLabel(undefined) has just returned on an Input whose label, required
\* flag and accept list were set before: they are still there.
C17_Witness ==
    /\ lastCall.op = "setLabel"
    /\ lastCall.id = Undefined
    /\ heap[lastCall.this]._label = "L"
    /\ heap[lastCall.this]._required = "true"
    /\ heap[lastCall.this]._accept = Array(<<"L">>)
    /\ heap[lastCall.this]._id = "C"

(***************************************************************************)
(* A client that fills the inputs list of an affordance: addInput with     *)
(* Inputs, with the same Input again, with objects that are no Input and   *)
(* with undefined.                                                         *)
(***************************************************************************)
MaxControlObjects == 3

\* this.addInput(control), the argument remembered
AddInputCall(this, control) ==
    /\ Idle
    /\ affordanceIsPrototypeOf(heap, this)
    /\ control \in Allocated(heap) \cup {0}
    /\ heap' = addInput(heap, this, control)
    /\ lastCall' = [Call("addInput", this, Undefined, control) EXCEPT !.ret = this]

NextControls ==
    \/ \E id \in {"C", NotAString} :
            NewAffordance(id, "GET", "/x", MaxControlObjects)
    \/ \E id \in LeafIdArgs : NewInput(id, "", MaxControlObjects)
    \/ \E this \in Addr, control \in Addr \cup {0} : AddInputCall(this, control)
    \/ Discard

SpecControls == Init /\ [][NextControls]_vars

\* The inputs list of an affordance: empty while the field is absent.
ControlsOf(h, this) == IF h[this]._controls.isArray THEN h[this]._controls.arr ELSE <<>>

\* C18: Affordance.addInput(control) appends control at the end of the
\* inputs list when control is an Input whose reference is not yet in the
\* list; in every other case (not an Input, or reference already present)
\* it changes nothing: the Affordance's state, its inputs field and its
\* serialized form are as before the call.
C18_RejectedAddInputChangesNothing ==
    [][(Idle /\ lastCall'.op = "addInput") =>
         LET this == lastCall'.this
             control == lastCall'.arg
         IN /\ lastCall'.ret = this
            /\ IF inputIsPrototypeOf(heap, control)
                  /\ control \notin Range(ControlsOf(heap, this))
               THEN heap' = [heap EXCEPT ![this]._controls =
                                Array(Append(ControlsOf(heap, this), control))]
               ELSE /\ heap' = heap
                    /\ encode(heap', this) = encode(heap, this)]_vars

\* C19: for every Input reached through the constructor and its setters,
\* input.revive applied to the object its toJSON returns yields a new Input
\* (not null) whose nine fields (id, value, accept, hidden, label, options,
\* readonly, regexp, required) equal the original's.
C19_ReviveOfToJSONIsEqual ==
    (lastCall.op = "revive" /\ lastCall.st = "ok") =>
        /\ lastCall.ret # 0
        /\ lastCall.ret # lastCall.this
        /\ inputIsPrototypeOf(heap, lastCall.ret)
        /\ \A field \in InputFields :
              heap[lastCall.ret][field] = heap[lastCall.this][field]

\* An Input whose value, label, required flag, accept list and regexp were
\* set has been revived from its plain form.
C19_Witness ==
    /\ lastCall.op = "revive"
    /\ lastCall.st = "ok"
    /\ lastCall.ret # 0
    /\ heap[lastCall.this]._value = "true"
    /\ heap[lastCall.this]._label = "L"
    /\ heap[lastCall.this]._required = "true"
    /\ heap[lastCall.this]._accept = Array(<<"L">>)
    /\ heap[lastCall.this]._regexp = "L"
    /\ heap[lastCall.ret]._hidden = Undefined

(***************************************************************************)
(* lib/affordance.js, lib/affordances.js: canRevive and revive; and the    *)
(* reviver lib/naval.js gives to JSON.parse.  JSON.parse calls the reviver *)
(* bottom-up: when it is called with an object, the elements of the        *)
(* object's arrays are the values the reviver returned for them, which are *)
(* references to the revived instances.                                    *)
(***************************************************************************)
\* affordance.canRevive(object)
affordanceCanRevive(object) ==
    /\ object.isObject
    /\ TypeofString(object._id)
    /\ TypeofString(object._method)
    /\ TypeofString(object._uri)

\* affordances.canRevive(object)
affordancesCanRevive(object) ==
    /\ object.isObject
    /\ object._affordances.isArray

RECURSIVE affordanceReviveControls(_, _, _, _)
RECURSIVE affordancesReviveChildren(_, _, _, _)

\* The loop of affordance.revive: instance.addInput(control) for each control.
affordanceReviveControls(h, instance, controls, i) ==
    IF i > Len(controls) THEN h
    ELSE affordanceReviveControls(addInput(h, instance, controls[i]),
                                  instance, controls, i + 1)

\* affordancesReviveChildren attaching the array as it is.
affordancesReviveChildrenUnchecked(h, instance, children, i) ==
    [h EXCEPT ![instance]._affordances = children]

\* The loop of affordances.revive: instance.addAffordance(affordance) for each.
affordancesReviveChildren(h, instance, children, i) ==
    IF i > Len(children) THEN h
    ELSE affordancesReviveChildren(addAffordance(h, instance, children[i]),
                                   instance, children, i + 1)

\* affordance.revive(object): the new Affordance, or null (0)
affordanceRevive(h, object) ==
    IF ~(/\ object.isObject
         /\ TypeofString(object._id)
         /\ TypeofString(object._method)
         /\ TypeofString(object._uri))
    THEN Ret("ok", h, 0)
    ELSE IF FreeCells(h) = {} THEN Ret("OutOfHeap", h, 0)
    ELSE Ret("ok",
             affordanceReviveControls(
                 setMetadata(
                     setRelation(
                         [h EXCEPT ![Alloc(h)] =
                             Affordance(object._id, object._method, object._uri)],
                         Alloc(h), object._relation),
                     Alloc(h), object._metadata),
                 Alloc(h),
                 IF object._controls.isArray THEN object._controls.arr ELSE <<>>,
                 1),
             Alloc(h))

\* affordances.revive(object): the new Affordances, or null (0)
affordancesRevive(h, object) ==
    IF ~(object.isObject /\ object._affordances.isArray)
    THEN Ret("ok", h, 0)
    ELSE IF FreeCells(h) = {} THEN Ret("OutOfHeap", h, 0)
    ELSE Ret("ok",
             affordancesReviveChildren(
                 setMetadata(
                     setId([h EXCEPT ![Alloc(h)] = Affordances(Undefined)],
                           Alloc(h), object._id),
                     Alloc(h), object._metadata),
                 Alloc(h), object._affordances.arr, 1),
             Alloc(h))

\* navalJsonReviver testing the Affordances shape before the other two.
navalJsonReviverCollectionFirst(h, value) ==
    IF affordancesCanRevive(value) THEN affordancesRevive(h, value)
    ELSE IF affordanceCanRevive(value) THEN affordanceRevive(h, value)
    ELSE IF inputCanRevive(value) THEN inputRevive(h, value)
    ELSE Ret("value", h, 0)

\* navalJsonReviver(key, value): the revived instance; or the value itself,
\* which is written as the status "value"
navalJsonReviver(h, value) ==
    IF value.isObject
    THEN IF affordanceCanRevive(value) THEN affordanceRevive(h, value)
         ELSE IF inputCanRevive(value) THEN inputRevive(h, value)
         ELSE IF affordancesCanRevive(value) THEN affordancesRevive(h, value)
         ELSE Ret("value", h, 0)
    ELSE Ret("value", h, 0)

(***************************************************************************)
(* lib/naval.js: the encode and decode delegates.  The text is JSON; it is *)
(* written here as the JSON value it denotes: what JSON.stringify writes   *)
(* for an object (the result of its toJSON, the undefined fields left out, *)
(* the nested objects written the same way) and what JSON.parse reads      *)
(* back before it calls the reviver.  An object of the text has the fields *)
(* the three shapes test and its other properties (props); its metadata is *)
(* a list of no or one object; its arrays hold values of the text.         *)
(***************************************************************************)
JsonObject ==
    [isObject |-> TRUE, props |-> <<>>,
     _id |-> Undefined, _value |-> Undefined, _accept |-> NoArray,
     _hidden |-> Undefined, _label |-> Undefined, _options |-> NoArray,
     _readonly |-> Undefined, _regexp |-> Undefined, _required |-> Undefined,
     _method |-> Undefined, _uri |-> Undefined, _relation |-> Undefined,
     _metadata |-> <<>>, _controls |-> NoArray, _affordances |-> NoArray]

\* A value of the text that is not an object: a number, a string, null.
JsonScalar == [JsonObject EXCEPT !.isObject = FALSE]

\* The value of property key of a plain object, undefined when it has none.
PropertyOf(props, key) == IF key \in DOMAIN props THEN props[key] ELSE Undefined

RECURSIVE jsonOf(_, _)
RECURSIVE jsonOfArray(_, _, _)

\* The values written for the elements of an array of objects.
jsonOfArray(h, arr, i) ==
    IF i > Len(arr) THEN <<>>
    ELSE <<jsonOf(h, arr[i])>> \o jsonOfArray(h, arr, i + 1)

\* The value written for the object a: Affordances.toJSON, Affordance.toJSON
\* and Input.toJSON for the instances, the own properties for a plain object.
jsonOf(h, a) ==
    IF h[a].kind = "Affordances"
    THEN [JsonObject EXCEPT
            !._id = h[a]._id,
            !._metadata = IF h[a]._metadata = 0 THEN <<>>
                          ELSE <<jsonOf(h, h[a]._metadata)>>,
            !._affordances = Array(jsonOfArray(h, h[a]._affordances, 1))]
    ELSE IF h[a].kind = "Affordance"
    THEN [JsonObject EXCEPT
            !._id = h[a]._id, !._method = h[a]._method, !._uri = h[a]._uri,
            !._relation = h[a]._relation,
            !._metadata = IF h[a]._metadata = 0 THEN <<>>
                          ELSE <<jsonOf(h, h[a]._metadata)>>,
            !._controls = IF h[a]._controls.isArray
                          THEN Array(jsonOfArray(h, h[a]._controls.arr, 1))
                          ELSE NoArray]
    ELSE IF h[a].kind = "Input"
    THEN [JsonObject EXCEPT
            !._id = h[a]._id, !._value = h[a]._value,
            !._accept = h[a]._accept, !._hidden = h[a]._hidden,
            !._label = h[a]._label, !._options = h[a]._options,
            !._readonly = h[a]._readonly, !._regexp = h[a]._regexp,
            !._required = h[a]._required]
    ELSE [JsonObject EXCEPT
            !.props = h[a].props,
            !._id = PropertyOf(h[a].props, "_id"),
            !._value = PropertyOf(h[a].props, "_value"),
            !._method = PropertyOf(h[a].props, "_method"),
            !._uri = PropertyOf(h[a].props, "_uri")]

\* The fields of an object of the text once JSON.parse has called the
\* reviver for its nested values: metadata is the reference the reviver
\* returned, controls and children the lists of the references it returned.
Revivable(json, metadata, controls, children) ==
    [Plain EXCEPT
        !._id = json._id, !._value = json._value, !._accept = json._accept,
        !._hidden = json._hidden, !._label = json._label,
        !._options = json._options, !._readonly = json._readonly,
        !._regexp = json._regexp, !._required = json._required,
        !._method = json._method, !._uri = json._uri,
        !._relation = json._relation,
        !._metadata = metadata,
        !._controls = IF json._controls.isArray THEN Array(controls) ELSE NoArray,
        !._affordances = IF json._affordances.isArray THEN Array(children) ELSE NoArray]

RECURSIVE internalize(_, _)
RECURSIVE internalizeArray(_, _, _)
RECURSIVE internalizeNext(_, _, _)
RECURSIVE internalizeControls(_, _)
RECURSIVE internalizeChildren(_, _, _)

\* The reviver returned: its instance; or its argument, a plain object that
\* the holder then refers to.
internalizeSelf(k, json) ==
    IF k.st # "value" THEN k
    ELSE IF FreeCells(k.h) = {} THEN Ret("OutOfHeap", k.h, 0)
    ELSE Ret("ok", [k.h EXCEPT ![Alloc(k.h)] = Object(json.props)], Alloc(k.h))

\* the object's nested values were walked (a: the children): the reviver is
\* called for the object
internalizeObject(a, metadata, controls, json) ==
    IF a.st # "ok" THEN a
    ELSE internalizeSelf(
             navalJsonReviver(a.h, Revivable(json, metadata, controls, a.r)), json)

\* what the reviver returned for an element, before what it returned for
\* the elements after it (k)
internalizePrepend(r, k) ==
    IF k.st # "ok" THEN k ELSE Ret("ok", k.h, <<r>> \o k.r)

\* element i of the array was walked (k): the elements after it
internalizeNext(k, arr, i) ==
    IF k.st # "ok" THEN k
    ELSE internalizePrepend(k.r, internalizeArray(k.h, arr, i + 1))

\* The walk of JSON.parse over the elements of an array, from index i on:
\* the list of what the reviver returned for them.
internalizeArray(h, arr, i) ==
    IF i > Len(arr) THEN Ret("ok", h, <<>>)
    ELSE internalizeNext(internalize(h, arr[i]), arr, i)

\* the metadata was walked (m): the controls
internalizeControls(m, json) ==
    IF m.st # "ok" THEN m
    ELSE internalizeChildren(
             internalizeArray(m.h, IF json._controls.isArray
                                   THEN json._controls.arr ELSE <<>>, 1),
             m.r, json)

\* the controls were walked (c): the children, then the object itself
internalizeChildren(c, metadata, json) ==
    IF c.st # "ok" THEN c
    ELSE internalizeObject(
             internalizeArray(c.h, IF json._affordances.isArray
                                   THEN json._affordances.arr ELSE <<>>, 1),
             metadata, c.r, json)

\* The walk of JSON.parse over a value of the text with navalJsonReviver:
\* the nested values first, then the value itself.  The result is the
\* reference the reviver returned (0 for a value that is not an object).
internalize(h, json) ==
    IF ~json.isObject THEN Ret("ok", h, 0)
    ELSE internalizeControls(
             IF json._metadata = <<>> THEN Ret("ok", h, 0)
             ELSE internalize(h, json._metadata[1]),
             json)

\* The text the encode delegate returns for hypermedia; and a text that is
\* not JSON.
encodedText(h, hypermedia) == [valid |-> TRUE, root |-> jsonOf(h, hypermedia)]
InvalidText == [valid |-> FALSE, root |-> JsonScalar]

\* decodeRoot without the test of what was revived.
decodeRootNoTest(k) == k

\* the decode delegate, JSON.parse having returned (k)
decodeRoot(k) ==
    IF k.st # "ok" THEN k
    ELSE IF affordanceIsPrototypeOf(k.h, k.r) \/ instanceofAffordances(k.h, k.r)
    THEN k
    ELSE Ret("ok", k.h, 0)

\* the decode delegate: JSON.parse(string, navalJsonReviver) in a try block;
\* the instance, or null (0)
decode(h, string) ==
    IF ~string.valid THEN Ret("ok", h, 0)
    ELSE decodeRoot(internalize(h, string.root))

(***************************************************************************)
(* The reviver called with the objects a parsed text can hold: every       *)
(* combination of the fields the three shapes test, present or absent,     *)
(* their arrays holding instances revived before.                          *)
(***************************************************************************)
MaxCodecObjects == 2

\* The arrays of a parsed object: absent, empty, or holding one instance.
ParsedArrays(h) == {NoArray, Array(<<>>)} \cup {Array(<<a>>) : a \in Allocated(h)}

\* The values the reviver is called with.
ParsedValues(h) ==
    {[Plain EXCEPT !._id = id, !._method = method, !._uri = uri,
                   !._value = value, !._controls = controls,
                   !._affordances = children] :
        id \in {"L", NotAString, Undefined}, method \in {"GET", Undefined},
        uri \in {"/x", Undefined}, value \in {"", Undefined},
        controls \in ParsedArrays(h), children \in ParsedArrays(h)}
    \cup {NotPlain}

\* The fields of the value the shapes test, as the reviver's caller saw them.
ShapeOf(value) ==
    <<IF value.isObject THEN "object" ELSE Undefined,
      value._id, value._method, value._uri, value._value,
      IF value._affordances.isArray THEN "array" ELSE Undefined>>

\* navalJsonReviver(key, value), called by JSON.parse
NavalJsonReviver(value) ==
    /\ Idle
    /\ \E k \in {navalJsonReviver(heap, value)} :
          /\ heap' = k.h
          /\ lastCall' = [Call("navalJsonReviver", 0, Undefined, 0) EXCEPT
                             !.st = k.st, !.ret = k.r, !.fresh = {k.r} \ {0},
                             !.seen = ShapeOf(value)]

\* The texts given to decode: a text that is not JSON; a text whose root is
\* not an object; and the texts whose root is an object with every
\* combination of the fields the shapes test, its array of children absent,
\* empty, or holding a number or an affordance.
DecodeRoots ==
    {[JsonObject EXCEPT !._id = id, !._method = method, !._uri = uri,
                        !._value = value, !._affordances = children] :
        id \in {"L", Undefined}, method \in {"GET", Undefined},
        uri \in {"/x", Undefined}, value \in {"", Undefined},
        children \in {NoArray, Array(<<>>), Array(<<JsonScalar>>),
                      Array(<<[JsonObject EXCEPT !._id = "C", !._method = "GET",
                                                 !._uri = "/c"]>>)}}
    \cup {JsonScalar}

DecodeTexts == {[valid |-> TRUE, root |-> root] : root \in DecodeRoots} \cup {InvalidText}

\* decode(string)
Decode(string) ==
    /\ Idle
    /\ \E k \in {decode(heap, string)} :
          /\ k.st # "OutOfHeap"
          /\ heap' = k.h
          /\ lastCall' = [Call("decode", 0, Undefined, 0) EXCEPT
                             !.st = k.st, !.ret = k.r,
                             !.val = IF string.valid THEN "JSON" ELSE "not JSON",
                             !.seen = ShapeOf(string.root),
                             !.fresh = Allocated(k.h) \ Allocated(heap)]

\* The arrays given to revive: up to two elements, each an instance made
\* before (an Affordance or an Input) or a value that is no object.
ReviveArrays(h) ==
    {<<>>} \cup {<<a>> : a \in Allocated(h) \cup {0}}
           \cup {<<a, b>> : a, b \in Allocated(h) \cup {0}}

\* affordances.revive({_id: 'L', _affordances: children})
AffordancesRevive(children) ==
    /\ Idle
    /\ \E k \in {affordancesRevive(heap, [Plain EXCEPT !._id = "L",
                                            !._affordances = Array(children)])} :
          /\ k.st # "OutOfHeap"
          /\ heap' = k.h
          /\ lastCall' = [Call("affordances.revive", 0, Undefined, 0) EXCEPT
                             !.st = k.st, !.ret = k.r, !.seen = children,
                             !.fresh = {k.r} \ {0}]

\* affordance.revive({_id: 'L', _method: 'GET', _uri: '/x', _controls: controls})
AffordanceRevive(controls) ==
    /\ Idle
    /\ \E k \in {affordanceRevive(heap, [Plain EXCEPT !._id = "L", !._method = "GET",
                                           !._uri = "/x",
                                           !._controls = Array(controls)])} :
          /\ k.st # "OutOfHeap"
          /\ heap' = k.h
          /\ lastCall' = [Call("affordance.revive", 0, Undefined, 0) EXCEPT
                             !.st = k.st, !.ret = k.r, !.seen = controls,
                             !.fresh = {k.r} \ {0}]

NextCodec ==
    \/ \E id \in LeafIdArgs : NewAffordance(id, "GET", "/x", MaxCodecObjects)
    \/ \E id \in LeafIdArgs : NewInput(id, "", MaxCodecObjects)
    \/ \E value \in ParsedValues(heap) : NavalJsonReviver(value)
    \/ \E string \in DecodeTexts : Decode(string)
    \/ \E children \in ReviveArrays(heap) : AffordancesRevive(children)
    \/ \E controls \in ReviveArrays(heap) : AffordanceRevive(controls)
    \/ Discard

SpecCodec == Init /\ [][NextCodec]_vars

\* The three shapes, on the fields the caller saw.
HasAffordanceShape(shape) ==
    /\ shape[1] = "object"
    /\ TypeofString(shape[2]) /\ TypeofString(shape[3]) /\ TypeofString(shape[4])

HasInputShape(shape) ==
    shape[1] = "object" /\ TypeofString(shape[2]) /\ shape[5] # Undefined

HasAffordancesShape(shape) == shape[1] = "object" /\ shape[6] = "array"

\* The type of what the reviver returned: the kind of the instance, or
\* "value" when it returned its argument.
RevivedAs(call) == IF call.st = "value" THEN "value" ELSE heap[call.ret].kind

\* C20: the reviver classifies each object by testing, in this order, the
\* Affordance shape, then the Input shape, then the Affordances shape, and
\* revives it with the first type that matches (a value matching none is
\* returned as it is); so an object whose id, method and uri are all strings
\* is revived as an Affordance, never as an Affordances or an Input,
\* whatever other fields it has.
C20_ReviverTestsAffordanceFirst ==
    (lastCall.op = "navalJsonReviver" /\ lastCall.st \in {"ok", "value"}) =>
        /\ RevivedAs(lastCall) =
              IF HasAffordanceShape(lastCall.seen) THEN "Affordance"
              ELSE IF HasInputShape(lastCall.seen) THEN "Input"
              ELSE IF HasAffordancesShape(lastCall.seen) THEN "Affordances"
              ELSE "value"
        /\ (/\ lastCall.seen[1] = "object"
            /\ TypeofString(lastCall.seen[2])
            /\ TypeofString(lastCall.seen[3])
            /\ TypeofString(lastCall.seen[4]))
              => (lastCall.ret # 0 /\ affordanceIsPrototypeOf(heap, lastCall.ret))

\* The reviver was called with an object that has the three shapes at once
\* (id, method and uri strings, a value, an array of children) and returned
\* an Affordance.
C20_Witness ==
    /\ lastCall.op = "navalJsonReviver"
    /\ lastCall.st = "ok"
    /\ lastCall.seen = <<"object", "L", "GET", "/x", "", "array">>
    /\ lastCall.ret # 0
    /\ heap[lastCall.ret].kind = "Affordance"

(***************************************************************************)
(* A client of the codec: it builds a tree (a forest, as the encoder       *)
(* needs), with relations, inputs and metadata, encodes a node and decodes *)
(* the text.                                                                *)
(***************************************************************************)
MaxRoundTripObjects == 3

\* The object literals this client passes to setMetadata: {a: 1}, and an
\* object that has an id and a value among its properties.
RoundTripLiterals ==
    { [k \in {"a"} |-> 1],
      ("_id" :> "L") @@ ("_value" :> "L") @@ ("a" :> 1) }

\* decode(encode(this))
DecodeEncoded(this) ==
    /\ Idle
    /\ IsNode(heap, this)
    /\ \E k \in {decode(heap, encodedText(heap, this))} :
          /\ k.st # "OutOfHeap"
          /\ heap' = k.h
          /\ lastCall' = [Call("decodeEncoded", this, Undefined, 0) EXCEPT
                             !.st = k.st, !.ret = k.r,
                             !.fresh = Allocated(k.h) \ Allocated(heap)]

NextRoundTrip ==
    \/ \E id \in IdArgs : NewAffordances(id, MaxRoundTripObjects)
    \/ \E id \in LeafIdArgs : NewAffordance(id, "GET", "/x", MaxRoundTripObjects)
    \/ \E id \in LeafIdArgs : NewInput(id, "", MaxRoundTripObjects)
    \/ \E this \in Addr : SetRelation(this, "self")
    \/ \E this \in Addr, props \in RoundTripLiterals :
            SetMetadata(this, ObjectLiteral(props))
    \/ \E this \in Addr, action \in Addr : AddTreeAffordance(this, action)
    \/ \E this \in Addr, control \in Addr : AddInput(this, control)
    \/ \E this \in Addr : DecodeEncoded(this)
    \/ Discard

SpecRoundTrip == Init /\ [][NextRoundTrip]_vars

\* The contents of the metadata of a node, as they are serialized; none
\* when the node has no metadata.
MetadataContents(h, a) ==
    IF h[a]._metadata = 0 THEN <<>> ELSE <<jsonOf(h, h[a]._metadata).props>>

\* The inputs of an affordance in their order: none while the field is
\* absent.
InputsInOrder(h, a) == IF h[a]._controls.isArray THEN h[a]._controls.arr ELSE <<>>

RECURSIVE SameSerializedTree(_, _, _)
\* b has the kind of node a has, the same id, method, uri, relation and
\* metadata contents, and as many children and inputs, in the same order,
\* each the same in turn.
SameSerializedTree(h, a, b) ==
    /\ h[a].kind = h[b].kind
    /\ h[a]._id = h[b]._id
    /\ h[a].kind = "Input" \/ MetadataContents(h, a) = MetadataContents(h, b)
    /\ h[a].kind = "Affordance" =>
          /\ h[a]._method = h[b]._method
          /\ h[a]._uri = h[b]._uri
          /\ h[a]._relation = h[b]._relation
          /\ Len(InputsInOrder(h, a)) = Len(InputsInOrder(h, b))
          /\ \A i \in 1..Len(InputsInOrder(h, a)) :
                SameSerializedTree(h, InputsInOrder(h, a)[i], InputsInOrder(h, b)[i])
    /\ h[a].kind = "Affordances" =>
          /\ Len(h[a]._affordances) = Len(h[b]._affordances)
          /\ \A i \in 1..Len(h[a]._affordances) :
                SameSerializedTree(h, h[a]._affordances[i], h[b]._affordances[i])

\* C21: decoding the encoding of any Affordance or Affordances tree yields
\* a tree with the same kind of node (Affordance, Affordances, Input) at
\* every position and the same serialized fields: ids, methods, uris,
\* relations, metadata contents, order of children and order of inputs.
C21_DecodeOfEncodeIsSameTree ==
    (lastCall.op = "decodeEncoded" /\ lastCall.st = "ok") =>
        /\ lastCall.ret # 0
        /\ SameSerializedTree(heap, lastCall.this, lastCall.ret)

\* C22: the decode delegate returns null, and never throws, for every text
\* that is not valid JSON or that is valid JSON whose root revives to
\* neither an Affordance nor an Affordances; it returns the revived root
\* exactly when the root is an Affordance or an Affordances.
C22_DecodeReturnsNodeOrNull ==
    lastCall.op = "decode" =>
        /\ lastCall.st = "ok"
        /\ (lastCall.ret # 0) <=>
              /\ lastCall.val = "JSON"
              /\ \/ HasAffordanceShape(lastCall.seen)
                 \/ ~HasInputShape(lastCall.seen) /\ HasAffordancesShape(lastCall.seen)
        /\ (lastCall.ret # 0) =>
              heap[lastCall.ret].kind =
                  IF HasAffordanceShape(lastCall.seen) THEN "Affordance" ELSE "Affordances"

\* A valid text whose root revives to an Input was decoded: the result is
\* null, the revived Input is dropped.
C22_Witness ==
    /\ lastCall.op = "decode"
    /\ lastCall.val = "JSON"
    /\ lastCall.seen = <<"object", "L", Undefined, "/x", "", "array">>
    /\ lastCall.ret = 0
    /\ \E a \in lastCall.fresh : heap[a].kind = "Input"

RECURSIVE FirstOccurrences(_, _, _)
\* The elements of arr that are in accepted, each at its first occurrence,
\* in the order of arr.
FirstOccurrences(arr, i, accepted) ==
    IF i > Len(arr) THEN <<>>
    ELSE (IF arr[i] \in accepted /\ \A j \in 1..(i - 1) : arr[j] # arr[i]
          THEN <<arr[i]>> ELSE <<>>)
         \o FirstOccurrences(arr, i + 1, accepted)

\* The children (inputs) of the node a revive call returned.
RevivedList(call) ==
    IF call.op = "affordances.revive" THEN heap[call.ret]._affordances
    ELSE IF heap[call.ret]._controls.isArray THEN heap[call.ret]._controls.arr
    ELSE <<>>

\* The instances the revived node's list accepts: Affordance and Affordances
\* as children, Input as inputs.
AcceptedBy(call) ==
    IF call.op = "affordances.revive"
    THEN {a \in Addr \ {call.ret} : IsNode(heap, a)}
    ELSE {a \in Addr : inputIsPrototypeOf(heap, a)}

\* C23 (as amended): affordances.revive(object) and affordance.revive(object)
\* re-attach, in the array's order, the elements of object's children
\* (inputs) array that pass the type test of addAffordance (addInput), each
\* reference once; they do not look inside the elements.  An element that is
\* not such an instance, or a reference that occurs again, is dropped, so the
\* revived node can have fewer children (inputs) than the array has elements.
C23_ReviveAttachesTheInstances ==
    (lastCall.op \in {"affordances.revive", "affordance.revive"} /\ lastCall.st = "ok") =>
        /\ lastCall.ret # 0
        /\ RevivedList(lastCall) = FirstOccurrences(lastCall.seen, 1, AcceptedBy(lastCall))

\* C23 (as stated): the revived node has as many children (inputs) as the
\* array has elements, the elements themselves in the array's order.
C23_ReviveAttachesEveryElement ==
    (lastCall.op \in {"affordances.revive", "affordance.revive"} /\ lastCall.st = "ok") =>
        /\ lastCall.ret # 0
        /\ Len(RevivedList(lastCall)) = Len(lastCall.seen)
        /\ RevivedList(lastCall) = lastCall.seen

\* affordances.revive was given an array of a number and an affordance and
\* returned a node with the affordance as its only child.
C23_Witness ==
    /\ lastCall.op = "affordances.revive"
    /\ lastCall.st = "ok"
    /\ Len(lastCall.seen) = 2
    /\ lastCall.seen[1] = 0
    /\ affordanceIsPrototypeOf(heap, lastCall.seen[2])
    /\ heap[lastCall.ret]._affordances = <<lastCall.seen[2]>>

(***************************************************************************)
(* A declaration that only adds requests: addRequest with ids that are     *)
(* new, ids that are taken, and arguments that are not strings.            *)
(***************************************************************************)
MaxRequests == 2

\* this.addRequest(id, method, uri), the arguments remembered
AddRequestCall(this, id, method, uri) ==
    /\ Idle
    /\ hapiIsPrototypeOf(heap, this)
    /\ \E k \in {addRequest(heap, this, id, method, uri)} :
          /\ k.st = "ok"
          /\ getCount(k.h, heap[this]._requests) <= MaxRequests
          /\ heap' = k.h
          /\ lastCall' = [Call("addRequest", this, id, 0) EXCEPT
                             !.ret = k.r, !.seen = <<method, uri>>]

NextRequests ==
    \/ \E id \in {"L", Undefined} : NewHypermediaApi(id)
    \/ \E this \in Addr, id \in {"L", "C", "R", NotAString},
          method \in {"GET", NotAString}, uri \in {"/x", NotAString} :
            AddRequestCall(this, id, method, uri)
    \/ Discard

SpecRequests == Init /\ [][NextRequests]_vars

\* The Affordance nodes of the request tree of an API.
RequestNodes(h, this) ==
    {a \in Reach(h, {h[this]._requests}) : affordanceIsPrototypeOf(h, a)}

\* C24: in a HypermediaApi whose request tree is modified only through
\* addRequest, no two Affordance nodes of the request tree have the same id
\* in any reachable state; addRequest with an id already present in the
\* tree, or with an id, method or uri that is not a string, leaves the tree
\* unchanged, and with a new id and strings it appends the new Affordance.
C24_RequestIdsStayUnique ==
    [][/\ \A this \in TheApis(heap') :
            \A a, b \in RequestNodes(heap', this) :
                heap'[a]._id = heap'[b]._id => a = b
       /\ (Idle /\ lastCall'.op = "addRequest") =>
            LET this == lastCall'.this
                requests == heap[this]._requests
                id == lastCall'.id
                method == lastCall'.seen[1]
                uri == lastCall'.seen[2]
            IN /\ lastCall'.ret = this
               /\ IF /\ TypeofString(id) /\ TypeofString(method) /\ TypeofString(uri)
                     /\ \A a \in RequestNodes(heap, this) : heap[a]._id # id
                  THEN \E a \in FreeCells(heap) :
                          heap' = [heap EXCEPT
                                      ![a] = Affordance(id, method, uri),
                                      ![requests]._affordances = Append(@, a)]
                  ELSE heap' = heap]_vars

\* addRequest('L', ...) has just been refused by a declaration that has the
\* requests L and C.
C24_Witness ==
    /\ lastCall.op = "addRequest"
    /\ lastCall.id = "L"
    /\ lastCall.seen = <<"GET", "/x">>
    /\ \E a, b \in Addr :
          /\ heap[heap[lastCall.this]._requests]._affordances = <<a, b>>
          /\ heap[a]._id = "L"
          /\ heap[b]._id = "C"

(***************************************************************************)
(* A declaration of requests and responses: addResponse for exchanges that *)
(* have a message and exchanges that have none, with lists of ids the tree *)
(* has and ids it has not.                                                 *)
(***************************************************************************)
\* The lists given as msg: ids of requests, an id no request has, the empty
\* list, a value that is not an array.
ResponseListArgs ==
    {Array(<<"L">>), Array(<<"C", "L">>), Array(<<"L", "R">>), Array(<<>>), NoArray}

\* this.addResponse(req, res, msg), the arguments remembered (arg is 1 when
\* msg is an array)
AddResponseCall(this, req, res, msg) ==
    /\ Idle
    /\ hapiIsPrototypeOf(heap, this)
    /\ heap' = addResponse(heap, this, req, res, msg)
    /\ lastCall' = [Call("addResponse", this, req, IF msg.isArray THEN 1 ELSE 0)
                       EXCEPT !.ret = this, !.val = res, !.seen = msg.arr]

NextResponses ==
    \/ \E id \in {"L", Undefined} : NewHypermediaApi(id)
    \/ \E this \in Addr, id \in ExchangeIdArgs : AddRequest(this, id, "GET", "/x")
    \/ \E this \in Addr, req \in {"L", "C", NotAString}, res \in CodeArgs,
          msg \in ResponseListArgs : AddResponseCall(this, req, res, msg)
    \/ Discard

SpecResponses == Init /\ [][NextResponses]_vars

\* The ids of the nodes of the request tree.
RequestIds(h, this) == {h[a]._id : a \in Descendants(h, h[this]._requests)}

\* C25: addResponse(req, res, msg) registers a message only when no message
\* exists yet for the exchange (req, res), req is the id of a node of the
\* request tree, and msg is a non-empty array whose every element is the id
\* of a node of the request tree; in every other case the message table is
\* unchanged, so the first message registered for an exchange is never
\* replaced: the entries of the table stay as they are, in every step.
C25_AddResponseRegistersOnce ==
    [][/\ \A this \in TheApis(heap) :
            /\ Len(heap'[this]._responses) >= Len(heap[this]._responses)
            /\ \A i \in 1..Len(heap[this]._responses) :
                  heap'[this]._responses[i] = heap[this]._responses[i]
       /\ (Idle /\ lastCall'.op = "addResponse") =>
            LET this == lastCall'.this
                req == lastCall'.id
                res == lastCall'.val
                msg == lastCall'.seen
            IN IF /\ \A i \in 1..Len(heap[this]._responses) :
                        ~(/\ heap[this]._responses[i].req = req
                          /\ heap[this]._responses[i].res = res)
                  /\ req \in RequestIds(heap, this)
                  /\ lastCall'.arg = 1
                  /\ Len(msg) > 0
                  /\ \A i \in 1..Len(msg) : msg[i] \in RequestIds(heap, this)
               THEN heap' = [heap EXCEPT ![this]._responses =
                                Append(@, [req |-> req, res |-> res, msg |-> msg])]
               ELSE heap' = heap]_vars

\* addResponse('L', '200', ['C', 'L']) has just been refused: the exchange
\* has the message ['L'] registered before, and keeps it.
C25_Witness ==
    /\ lastCall.op = "addResponse"
    /\ lastCall.id = "L"
    /\ lastCall.val = "200"
    /\ lastCall.seen = <<"C", "L">>
    /\ heap[lastCall.this]._responses = <<[req |-> "L", res |-> "200", msg |-> <<"L">>]>>
    /\ {"L", "C"} \subseteq RequestIds(heap, lastCall.this)

(***************************************************************************)
(* The request handlers.  A function value is its source text.  A property *)
(* an object owns is a field of its cell; a property it does not own is    *)
(* looked up in its prototype: Affordance.prototype holds requestHandler   *)
(* and no property named handler.                                          *)
(***************************************************************************)
\* Affordance.prototype.requestHandler
requestHandler ==
    "function (req, res) { res.statusCode = '200'; res.headers = {...}; res.body = '{}'; }"

\* Two functions of the client.
ClientHandlers == {"function h1(req, res) {}", "function h2(req, res) {}"}

\* typeof handler === 'function'
TypeofFunction(v) == v \in ClientHandlers \cup {requestHandler}

\* object.hasOwnProperty(key); the key is converted to a string, and the
\* string a function is converted to is its source text.
hasOwnProperty(h, this, key) == key \in DOMAIN h[this]

\* this.requestHandler, read
getRequestHandler(h, this) ==
    IF hasOwnProperty(h, this, "requestHandler") THEN h[this].requestHandler
    ELSE requestHandler

\* request.handler, read: the affordance owns no such property unless one
\* was assigned to it, and its prototypes have none.
getHandler(h, this) ==
    IF hasOwnProperty(h, this, "handler") THEN h[this].handler ELSE Undefined

\* Affordance.addRequestHandler: the assignment makes requestHandler a
\* property of the affordance itself.
addRequestHandler(h, this, handler) ==
    LET value == IF TypeofFunction(handler) THEN handler ELSE getRequestHandler(h, this)
    IN [h EXCEPT ![this] = [key \in DOMAIN @ \cup {"requestHandler"} |->
                               IF key = "requestHandler" THEN value ELSE @[key]]]

\* delete this.requestHandler
deleteRequestHandler(h, this) ==
    [h EXCEPT ![this] = [key \in DOMAIN @ \ {"requestHandler"} |-> @[key]]]

\* Affordance.removeRequestHandler
removeRequestHandler(h, this) ==
    IF hasOwnProperty(h, this, getRequestHandler(h, this))
    THEN deleteRequestHandler(h, this)
    ELSE h

\* What handleRequest did: how it ended, the heap, and the function it called.
Handled(st, h, invoked) == [st |-> st, h |-> h, invoked |-> invoked]

\* HypermediaApi.handleRequest.  Reading .call of undefined throws a
\* TypeError, and the statements after it are not run.
handleRequest(h, this) ==
    LET request == h[this]._incomingRequest
    IN IF affordanceIsPrototypeOf(h, request)
       THEN IF TypeofFunction(getHandler(h, request))
            THEN Handled("ok", [h EXCEPT ![this]._incomingRequest = 0],
                         getHandler(h, request))
            ELSE Handled("TypeError", h, Undefined)
       ELSE Handled("ok", [h EXCEPT ![this]._incomingRequest = 0], Undefined)

\* this.addRequestHandler(handler); id is the handler the affordance had
AddRequestHandler(this, handler) ==
    /\ Idle
    /\ affordanceIsPrototypeOf(heap, this)
    /\ heap' = addRequestHandler(heap, this, handler)
    /\ lastCall' = [Call("addRequestHandler", this, getRequestHandler(heap, this), 0)
                       EXCEPT !.ret = this, !.val = handler]

\* this.removeRequestHandler(); id is the handler the affordance had
RemoveRequestHandler(this) ==
    /\ Idle
    /\ affordanceIsPrototypeOf(heap, this)
    /\ heap' = removeRequestHandler(heap, this)
    /\ lastCall' = [Call("removeRequestHandler", this, getRequestHandler(heap, this), 0)
                       EXCEPT !.ret = this]

\* this.handleRequest(req, res); arg is the request that was bound, val the
\* function that was called
HandleRequest(this) ==
    /\ Idle
    /\ hapiIsPrototypeOf(heap, this)
    /\ \E k \in {handleRequest(heap, this)} :
          /\ heap' = k.h
          /\ lastCall' = [Call("handleRequest", this, Undefined,
                               heap[this]._incomingRequest)
                             EXCEPT !.st = k.st, !.val = k.invoked,
                                    !.ret = IF k.st = "ok" THEN this ELSE 0]

\* An API whose requests get handlers, and which handles the request bound
\* to it.
NextHandlers ==
    \/ NewHypermediaApi(Undefined)
    \/ \E this \in Addr, id \in ExchangeIdArgs : AddRequest(this, id, "GET", "/x")
    \/ \E this \in Addr, request \in Addr \cup {0} : SetIncomingRequest(this, request)
    \/ \E this \in Addr, handler \in ClientHandlers \cup {NotAString} :
            AddRequestHandler(this, handler)
    \/ \E this \in Addr : RemoveRequestHandler(this)
    \/ \E this \in Addr : HandleRequest(this)
    \/ Discard

SpecHandlers == Init /\ [][NextHandlers]_vars

\* C26: handleRequest(req, res) with an Affordance bound as incoming request
\* invokes that affordance's request handler (the default one when none was
\* installed), does not throw, and afterwards the HypermediaApi has no bound
\* incoming request, so a following respond(code) resolves a null request id.
C26_HandleRequestInvokesAndUnbinds ==
    [][(/\ Idle
        /\ lastCall'.op = "handleRequest"
        /\ affordanceIsPrototypeOf(heap, lastCall'.arg))
       => /\ lastCall'.st = "ok"
          /\ lastCall'.val = getRequestHandler(heap, lastCall'.arg)
          /\ heap'[lastCall'.this]._incomingRequest = 0]_vars

\* C29: after addRequestHandler(h) with a function h followed by
\* removeRequestHandler(), the Affordance's request handler is the default
\* handler again; addRequestHandler with a non-function leaves the current
\* handler unchanged.
C29_RemoveRestoresDefaultHandler ==
    [][/\ (Idle /\ lastCall'.op = "removeRequestHandler")
          => getRequestHandler(heap', lastCall'.this) = requestHandler
       /\ (Idle /\ lastCall'.op = "addRequestHandler"
                /\ ~TypeofFunction(lastCall'.val))
          => getRequestHandler(heap', lastCall'.this)
                = getRequestHandler(heap, lastCall'.this)]_vars

(***************************************************************************)
(* A declaration where addMetadata comes before and after addRequest, and  *)
(* the responses assembled from it.                                        *)
(***************************************************************************)
\* this.addMetadata(meta) with an object literal or with a value that is no
\* object; arg is the object given, 0 when it is no object.
AddMetadataCall(this, meta) ==
    /\ Idle
    /\ hapiIsPrototypeOf(heap, this)
    /\ LET requests == heap[this]._requests
           request == getLastAffordance(heap, requests)
           node == IF request # 0 THEN request ELSE requests
           cell == IF heap[node]._metadata # 0 THEN heap[node]._metadata
                   ELSE Alloc(heap)
       IN /\ heap' = IF meta.isObject
                     THEN addMetadata([heap EXCEPT ![cell] = Object(meta.props)],
                                      this, cell)
                     ELSE addMetadata(heap, this, 0)
          /\ lastCall' = [Call("addMetadata", this, Undefined,
                               IF meta.isObject THEN cell ELSE 0)
                             EXCEPT !.ret = this]
    /\ Cardinality(Allocated(heap')) <= MaxApiObjects

NextMetadata ==
    \/ NewHypermediaApi(Undefined)
    \/ \E this \in Addr, id \in RequestIdArgs : AddRequest(this, id, "GET", "/x")
    \/ \E this \in Addr, meta \in ApiMetaArgs : AddMetadataCall(this, meta)
    \/ \E this \in Addr, req \in ExchangeIdArgs,
          msg \in {Array(<<"L">>), Array(<<"C">>), Array(<<"L", "C">>)} :
            AddResponse(this, req, "200", msg)
    \/ \E this \in Addr, request \in Addr \cup {0} : SetIncomingRequest(this, request)
    \/ \E this \in Addr : Respond(this, "200")
    \/ Discard

SpecMetadata == Init /\ [][NextMetadata]_vars

\* The fields of the collection's metadata, overwritten by the request's own.
CascadedProps(h, requests, n) ==
    [key \in DOMAIN OwnProps(h, requests) \cup DOMAIN OwnProps(h, n) |->
        IF key \in DOMAIN OwnProps(h, n) THEN OwnProps(h, n)[key]
        ELSE OwnProps(h, requests)[key]]

\* C27: addMetadata(meta) sets the metadata of the most recently added
\* request when the request tree has at least one child, and sets the
\* metadata of the root request collection only when the tree is empty; no
\* other node's metadata changes.  So the collection's metadata is what was
\* given before the first addRequest, and every copy respond returns carries
\* it, overwritten by the metadata of the request copied and by no other
\* request's.
C27_AddMetadataTargetsLastRequest ==
    [][/\ (Idle /\ lastCall'.op = "addMetadata") =>
            LET this == lastCall'.this
                requests == heap[this]._requests
                count == Len(heap[requests]._affordances)
                target == IF count > 0 THEN heap[requests]._affordances[count]
                          ELSE requests
            IN /\ heap'[target]._metadata =
                     IF lastCall'.arg # 0 THEN lastCall'.arg
                     ELSE heap[target]._metadata
               /\ \A a \in Reach(heap, {requests}) \ {target} :
                     /\ heap'[a]._metadata = heap[a]._metadata
                     /\ OwnProps(heap', a) = OwnProps(heap, a)
               /\ heap'[requests]._affordances = heap[requests]._affordances
       /\ (Idle /\ lastCall'.op = "respond" /\ lastCall'.ret # 0) =>
            LET requests == heap[lastCall'.this]._requests
                hypermedia == heap'[lastCall'.ret]._affordances
            IN \A i \in 1..Len(hypermedia) :
                  \E n \in Children(heap, requests) :
                     /\ heap[n]._id = heap'[hypermedia[i]]._id
                     /\ OwnProps(heap', hypermedia[i]) = CascadedProps(heap, requests, n)]_vars

\* A response with the copy of the request C: the collection got {a: 1}
\* before the first addRequest, C got {a: 2, b: 2} after it was added, and
\* the request L added before C has no metadata of its own.
C27_Witness ==
    /\ lastCall.op = "respond"
    /\ lastCall.ret # 0
    /\ LET requests == heap[lastCall.this]._requests
       IN /\ OwnProps(heap, requests) = [k \in {"a"} |-> 1]
          /\ Len(heap[requests]._affordances) = 2
          /\ heap[heap[requests]._affordances[1]]._id = "L"
          /\ heap[heap[requests]._affordances[1]]._metadata = 0
          /\ OwnProps(heap, heap[requests]._affordances[2]) = [k \in {"a", "b"} |-> 2]
          /\ Len(heap[lastCall.ret]._affordances) = 1
          /\ heap[heap[lastCall.ret]._affordances[1]]._id = "C"
          /\ OwnProps(heap, heap[lastCall.ret]._affordances[1]) = [k \in {"a", "b"} |-> 2]

(***************************************************************************)
(* lib/hypermediator.js.  The Plugin is an object of its own kind; its     *)
(* bridge is the server adapter, and what the model keeps of a call to it  *)
(* is that it was made and with which arguments.                           *)
(***************************************************************************)
\* plugin()
Plugin == [kind |-> "Plugin"]

\* plugin.isPrototypeOf(extension)
pluginIsPrototypeOf(h, a) == a \in Addr /\ h[a].kind = "Plugin"

\* function Hypermediator(extension); _host is not assigned
Hypermediator(h, extension) ==
    [kind |-> "Hypermediator",
     _plugin |-> IF pluginIsPrototypeOf(h, extension) THEN extension ELSE 0,
     _port |-> "0",
     _host |-> Undefined]

hypermediatorIsPrototypeOf(h, a) == a \in Addr /\ h[a].kind = "Hypermediator"

\* Number(port) for the strings given as ports; any other string gives NaN,
\* and NaN >= 0 is false.
Number == ("0" :> 0) @@ ("80" :> 80) @@ ("" :> 0) @@ ("-1" :> (0 - 1))

\* Hypermediator.setPlugin
setPlugin(h, this, extension) ==
    [h EXCEPT ![this]._plugin = IF pluginIsPrototypeOf(h, extension) THEN extension ELSE @]

\* Hypermediator.setPort
setPort(h, this, port) ==
    [h EXCEPT ![this]._port =
        IF TypeofString(port) /\ port \in DOMAIN Number /\ Number[port] >= 0
        THEN port ELSE @]

\* Hypermediator.setHost
setHost(h, this, host) ==
    [h EXCEPT ![this]._host = IF TypeofString(host) THEN host ELSE @]

\* HypermediaApi.canHost
canHost(h, this) ==
    /\ h[this]._protocol # "" /\ h[this]._mediatype # ""
    /\ getCount(h, h[this]._requests) > 0
    /\ Len(h[this]._responses) > 0

\* What mediate did: whether it called extension.bridge, and with what.
Bridged(called, api, port, host) ==
    [called |-> called, api |-> api, port |-> port, host |-> host]

\* Hypermediator.mediate
mediate(h, this, api) ==
    LET extension == h[this]._plugin
    IN IF pluginIsPrototypeOf(h, extension)
       THEN Bridged(TRUE, api, h[this]._port, h[this]._host)
       ELSE Bridged(FALSE, 0, Undefined, Undefined)

NewPlugin ==
    /\ Idle
    /\ \A a \in Addr : ~pluginIsPrototypeOf(heap, a)
    /\ heap' = [heap EXCEPT ![Alloc(heap)] = Plugin]
    /\ UNCHANGED lastCall

\* hypermediator(extension)
NewHypermediator(extension) ==
    /\ Idle
    /\ \A a \in Addr : ~hypermediatorIsPrototypeOf(heap, a)
    /\ extension \in Allocated(heap) \cup {0}
    /\ heap' = [heap EXCEPT ![Alloc(heap)] = Hypermediator(heap, extension)]
    /\ UNCHANGED lastCall

SetPlugin(this, extension) ==
    /\ Idle
    /\ hypermediatorIsPrototypeOf(heap, this)
    /\ extension \in Allocated(heap) \cup {0}
    /\ heap' = setPlugin(heap, this, extension)
    /\ UNCHANGED lastCall

SetPort(this, port) ==
    /\ Idle
    /\ hypermediatorIsPrototypeOf(heap, this)
    /\ heap' = setPort(heap, this, port)
    /\ UNCHANGED lastCall

SetHost(this, host) ==
    /\ Idle
    /\ hypermediatorIsPrototypeOf(heap, this)
    /\ heap' = setHost(heap, this, host)
    /\ UNCHANGED lastCall

\* this.mediate(api); changed tells that bridge was called, arg, val and id
\* are the api, the port and the host it was called with
Mediate(this, api) ==
    /\ Idle
    /\ hypermediatorIsPrototypeOf(heap, this)
    /\ api \in Allocated(heap) \cup {0}
    /\ \E k \in {mediate(heap, this, api)} :
          lastCall' = [Call("mediate", this, k.host, api)
                          EXCEPT !.ret = this, !.val = k.port, !.changed = k.called]
    /\ UNCHANGED heap

\* A Hypermediator configured with a plugin, a port and a host, and an API
\* that is given requests and responses until it can be hosted.
NextMediator ==
    \/ NewPlugin
    \/ \E extension \in Addr \cup {0} : NewHypermediator(extension)
    \/ \E this \in Addr, extension \in Addr \cup {0} : SetPlugin(this, extension)
    \/ \E this \in Addr, port \in {"80", "", "-1", "http", NotAString} : SetPort(this, port)
    \/ \E this \in Addr, host \in {"127.0.0.1", NotAString} : SetHost(this, host)
    \/ NewHypermediaApi(Undefined)
    \/ \E this \in Addr : AddRequest(this, "L", "GET", "/x")
    \/ \E this \in Addr : AddResponse(this, "L", "200", Array(<<"L">>))
    \/ \E this \in Addr, api \in Addr \cup {0} : Mediate(this, api)
    \/ Discard

SpecMediator == Init /\ [][NextMediator]_vars

\* C28: Hypermediator.mediate(api) calls the plugin's bridge, with (api,
\* port, host) where port is always a string, only when a Plugin is installed
\* and api is a HypermediaApi that can be hosted (api.canHost() is true);
\* otherwise it does nothing.
C28_MediateBridgesHostableApisOnly ==
    [][(Idle /\ lastCall'.op = "mediate") =>
          LET this == lastCall'.this
              api == lastCall'.arg
          IN /\ heap' = heap
             /\ lastCall'.changed <=>
                   /\ pluginIsPrototypeOf(heap, heap[this]._plugin)
                   /\ hapiIsPrototypeOf(heap, api)
                   /\ canHost(heap, api)
             /\ lastCall'.changed =>
                   /\ TypeofString(lastCall'.val)
                   /\ lastCall'.val = heap[this]._port
                   /\ lastCall'.id = heap[this]._host]_vars

(***************************************************************************)
(* The states of an Input: the constructor, every setter with arguments    *)
(* that pass and that fail its test, copy, and revive of objects with      *)
(* valid and invalid fields.                                               *)
(***************************************************************************)
MaxStateInputs == 1

\* The objects given to input.revive: one with an empty accept list and a
\* required that is no boolean, one without value, one whose id is a
\* number, and a value that is no object.
ReviveObjects ==
    { [Plain EXCEPT !._id = "L", !._value = "", !._accept = Array(<<>>),
                    !._required = "L", !._options = Array(<<"L">>)],
      [Plain EXCEPT !._id = "L"],
      [Plain EXCEPT !._id = NotAString, !._value = ""],
      NotPlain }

\* this.copy()
InputCopyCall(this) ==
    /\ Idle
    /\ inputIsPrototypeOf(heap, this)
    /\ \E k \in {InputCopy(heap, this)} :
          /\ heap' = k.h
          /\ lastCall' = [Call("copy", this, Undefined, 0) EXCEPT
                             !.st = k.st, !.ret = k.r, !.fresh = {k.r} \ {0}]

\* input.revive(object)
InputReviveCall(object) ==
    /\ Idle
    /\ \E k \in {inputRevive(heap, object)} :
          /\ heap' = k.h
          /\ lastCall' = [Call("revive", 0, object._id, 0) EXCEPT
                             !.st = k.st, !.ret = k.r, !.fresh = {k.r} \ {0}]

NextInputState ==
    \/ \E id \in {"C", NotAString}, value \in {"C", Undefined} :
            NewInput(id, value, MaxStateInputs)
    \/ \E this \in Addr, setter \in ScalarSetters, value \in ScalarArgs :
            CallScalarSetter(this, setter, value)
    \/ \E this \in Addr, setter \in ArraySetters, value \in ArrayArgs :
            CallArraySetter(this, setter, value)
    \/ \E this \in Addr : InputCopyCall(this)
    \/ \E object \in ReviveObjects : InputReviveCall(object)
    \/ Discard

SpecInputState == Init /\ [][NextInputState]_vars

\* The optional fields of an Input that hold a scalar.
OptionalScalarFields == {"_hidden", "_label", "_readonly", "_regexp", "_required"}

\* C30: in every state reachable through the Input constructor, setters,
\* copy and revive, the id of an Input is a string and its value is never
\* undefined; accept and options, when defined, are non-empty arrays; and an
\* optional field (accept, required, label, hidden, readonly, options,
\* regexp) that is defined is still defined after every step.
C30_InputFieldsStayDefined ==
    [][\A a \in Addr :
          inputIsPrototypeOf(heap', a) =>
             /\ TypeofString(heap'[a]._id)
             /\ heap'[a]._value # Undefined
             /\ heap'[a]._accept.isArray => Len(heap'[a]._accept.arr) > 0
             /\ heap'[a]._options.isArray => Len(heap'[a]._options.arr) > 0
             /\ inputIsPrototypeOf(heap, a) =>
                   /\ \A f \in OptionalScalarFields :
                         heap[a][f] # Undefined => heap'[a][f] # Undefined
                   /\ heap[a]._accept.isArray => heap'[a]._accept.isArray
                   /\ heap[a]._options.isArray => heap'[a]._options.isArray]_vars

\* setAccept([]) has just been refused on an Input whose accept list and
\* label were set before: both are as they were.
C30_Witness ==
    /\ lastCall.op = "setAccept"
    /\ lastCall.val = "array"
    /\ lastCall.seen = <<>>
    /\ heap[lastCall.this]._accept = Array(<<"L">>)
    /\ heap[lastCall.this]._label = "L"

====
